---- MODULE Spec2Model ----
(***************************************************************************)
(* Execution coordination of the kubiya worker.                            *)
(*                                                                         *)
(* The programs of the repository are modelled under these                 *)
(* specifications:                                                         *)
(*                                                                         *)
(*  Spec      activities/agent_activities.py: the activity                 *)
(*            execute_agent_llm, its worker thread stream_agent_run, the   *)
(*            activity cancel_agent_run and the module-level registry      *)
(*            _active_agents they share.                                   *)
(*  SpecExec  services/agent_executor.py: AgentExecutorService.execute,    *)
(*            its worker thread, its periodic_persistence_task and the     *)
(*            CancellationManager it is given.                             *)
(*  SpecRetry the retried session load and final persist of                *)
(*            execute_agent_llm, and SessionService.load_session and       *)
(*            persist_session as agent_executor.py calls them.             *)
(*  SpecStream  the consumption of the stream by stream_agent_run, chunk   *)
(*            by chunk, for turns that follow one another.                 *)
(*  SpecContext  SessionService.build_conversation_context.                *)
(*  SpecHook  tool_hook, for invocations that may overlap.                 *)
(*  SpecTeam  activities/team_activities.py: stream_team_run over          *)
(*            publish_streaming_event, beside the run whose every publish  *)
(*            is accepted.                                                 *)
(*                                                                         *)
(* SpecExecFair and SpecRetryFair are SpecExec and SpecRetry with the      *)
(* fairness that termination claims need.                                  *)
(***************************************************************************)
EXTENDS Integers, Sequences, FiniteSets, TLC

(***************************************************************************)
(* Bounds of the model.                                                    *)
(***************************************************************************)
\* Number of run tokens one engine run may report in its chunks.
MaxTokens == 2
\* Number of chunks the engine yields to the stream of SpecExec at most.
MaxChunks == 2
\* Number of times the periodic task's 60 s sleep ends in SpecExec.
MaxWakes == 2
\* Number of store calls that fail, in all, in the inline retry loops of
\* SpecRetry.
MaxStoreFailures == 3
\* Turns the streaming model runs one after another.
MaxTurns == 2
\* Length of the longest message sequence build_conversation_context is
\* given.
MaxMessages == 2
\* Highest value the clock of the tool hook reaches.
MaxClock == 2
\* Number of chunks team.run yields to stream_team_run at most.
MaxTeamChunks == 2

\* The activity executions in flight (execute_agent_llm invocations): two,
\* the least number that can overlap.
Execs == {1, 2}
\* Execution ids the callers supply: two executions may carry the same id
\* (an activity retried while the thread of the earlier attempt still runs).
Ids == {"x1", "x2"}

\* "run_id": None of a fresh registry entry.
NoRunId == 0
\* Run tokens the engine run of agent a reports: a * 10 + k.
TokensOf(a) == {a * 10 + k : k \in 1..MaxTokens}
\* The agent whose run reported token t.
AgentOfToken(t) == t \div 10

\* A message of a session, and the prompt of the execution.
Msg(role, content) == [role |-> role, content |-> content]
Prompt == <<"p">>

\* What the thread of agent_executor.py may return: the iterator of a
\* streamed run, which has no "messages" (agent_activities.py, line 687), or
\* the response of the non-streaming run with the messages of the turn.
ResultWithout == [has_messages |-> FALSE, messages |-> <<>>]
ResultWith ==
  [has_messages |-> TRUE,
   messages |-> <<Msg("user", Prompt), Msg("assistant", <<"F">>)>>]

VARIABLES
  \* ---- agent_activities.py ----
  active_agents,     \* _active_agents: execution_id -> [agent, run_id]
  idOf,              \* input.execution_id of each execution
  pc,                \* position of execute_agent_llm
  tpc,               \* position of the thread running stream_agent_run
  cur,               \* chunk.run_id of the chunk the thread is handling
  run_id_published,  \* stream_agent_run's local flag
  engine_runs,       \* agent.run(...) calls made for the execution
  cancelled,         \* agents on which agent.cancel_run returned True
  cancel_result,     \* what the last cancel_agent_run returned
  result,            \* what execute_agent_llm returned (or raised)
  \* ---- agent_executor.py ----
  mgr,                    \* the CancellationManager's entries
  xpc,                    \* position of AgentExecutorService.execute
  xpath,                  \* how its await of the thread ended
  xtpc,                   \* position of its thread (stream_agent_run)
  xchunks,                \* chunks that thread has taken
  run_id_seen,            \* StreamingHelper: a run id was handled
  full_response,          \* StreamingHelper: the contents streamed so far
  thread_result,          \* what the thread returned (the run's result)
  session_history,        \* the messages load_session returned
  execution_running,      \* flag read by the periodic task
  last_persisted_length,  \* periodic task: length at the last good snapshot
  persistence_task,       \* state of the asyncio task
  wakes,                  \* times the periodic task's sleep has ended
  persisted,              \* the persist_session calls made, in order
  xresult,                \* what execute returned (or raised)
  \* ---- the retry loops of agent_activities.py ----
  loop_owner,        \* the coroutine running on the event loop (0: none)
  rpc,               \* position of execute_agent_llm in its retry loops
  attempt,           \* the loop variable "attempt"
  load_log,          \* store calls and sleeps of the session load
  persist_log,       \* store calls and sleeps of the final persist
  loaded_history,    \* session_history as the load left it
  response_content,  \* the response the run produced
  rresult,           \* the dict execute_agent_llm returned
  \* ---- SessionService under agent_executor.py ----
  spc,               \* position of the service's execute
  sload,             \* what load_session did and gave back
  sresponse,         \* the response the run produced
  spersist,          \* what persist_session did and gave back
  sresult,           \* the dict execute returned
  \* ---- stream_agent_run of agent_activities.py, one turn after another ----
  turn,                     \* turns started so far
  now,                      \* int(time.time() * 1000000) at its last reading
  execution_id,             \* input.execution_id of the turn
  message_id,               \* message_id of the turn (line 539)
  used_message_ids,         \* the message ids of the turns before
  stpc,                     \* position of the turn and of its thread
  chunk,                    \* the chunk of the for loop (line 561)
  consumed,                 \* the chunks the iterator has yielded
  stream_run_id_published,  \* the local run_id_published (line 544)
  stream_full_response,     \* full_response (line 535), a string
  response_chunks,          \* response_chunks (line 534)
  events,                   \* the events given to publish_event, in order
  set_calls,                \* run ids that reached the store of line 568
  \* ---- tool_hook (team_activities.py lines 554-644) ----
  hook_clock,        \* int(time.time() * 1000000) as a call reads it
  hook_pc,           \* position of each invocation of tool_hook
  hook_tool,         \* tool_name of the invocation
  hook_id,           \* tool_execution_id of the invocation
  hook_status,       \* status of the invocation
  hook_error,        \* error of the invocation
  hook_trace,        \* events published and calls made, in order
  \* ---- build_conversation_context (session_service.py) ----
  ctx_pc,            \* position of build_conversation_context
  session_messages,  \* its argument
  messages_at_call,  \* the argument as it was when the call was made
  context,           \* its local list "context"
  ctx_returned,      \* what it returned
  \* ---- stream_team_run with its sink, and the run every publish of ----
  \* ---- which is accepted                                           ----
  team_input,            \* the chunks team.run yields, and how it ends
  team_pc,               \* position of each of the two runs
  team_visited,          \* chunks the for loop of each run has taken
  team_full_response,    \* full_response of each run
  team_response_chunks,  \* response_chunks of each run
  team_published,        \* publish_streaming_event calls of each run
  team_result            \* what execute_team_coordination returned

avars == <<active_agents, idOf, pc, tpc, cur, run_id_published,
           engine_runs, cancelled, cancel_result, result>>

svars == <<mgr, xpc, xpath, xtpc, xchunks, run_id_seen, full_response,
           thread_result, session_history, execution_running,
           last_persisted_length, persistence_task, wakes, persisted,
           xresult>>

rvars == <<loop_owner, rpc, attempt, load_log, persist_log, loaded_history,
           response_content, rresult, spc, sload, sresponse, spersist,
           sresult>>

tvars == <<turn, now, execution_id, message_id, used_message_ids, stpc,
           chunk, consumed, stream_run_id_published, stream_full_response,
           response_chunks, events, set_calls>>

hvars == <<hook_clock, hook_pc, hook_tool, hook_id, hook_status, hook_error,
           hook_trace>>

cvars == <<ctx_pc, session_messages, messages_at_call, context,
           ctx_returned>>

pvars == <<team_input, team_pc, team_visited, team_full_response,
           team_response_chunks, team_published, team_result>>

vars == <<avars, svars, rvars, tvars, hvars, cvars, pvars>>

(***************************************************************************)
(* Dictionary helpers (Python dict as a function on its key set).          *)
(***************************************************************************)
DictSet(d, k, v) == [i \in DOMAIN d \cup {k} |-> IF i = k THEN v ELSE d[i]]
DictDel(d, k) == [i \in DOMAIN d \ {k} |-> d[i]]

(***************************************************************************)
(* The registry operations of agent_activities.py.                         *)
(***************************************************************************)
\* A registration that keeps the run_id of the entry it finds
\* (dict.setdefault followed by an update of "agent" alone).
RegisterEntry_KeepRunId(reg, id, agent) ==
  DictSet(reg, id, [agent |-> agent,
                    run_id |-> IF id \in DOMAIN reg THEN reg[id].run_id
                                                    ELSE NoRunId])

\* _active_agents[execution_id] = {"agent": agent, "run_id": None, ...}
RegisterEntry(reg, id, agent) ==
  DictSet(reg, id, [agent |-> agent, run_id |-> NoRunId])

\* An unregister that removes only the entries whose run has started.
UnregisterEntry_OnlyStarted(reg, id) ==
  IF id \in DOMAIN reg /\ reg[id].run_id # NoRunId THEN DictDel(reg, id)
                                                   ELSE reg

\* if execution_id in _active_agents: del _active_agents[execution_id]
UnregisterEntry(reg, id) ==
  IF id \in DOMAIN reg THEN DictDel(reg, id) ELSE reg

\* _active_agents[execution_id]["run_id"] = agno_run_id
\* (the caller has found the key present)
StoreRunId(reg, id, rid) ==
  [reg EXCEPT ![id] = [@ EXCEPT !.run_id = rid]]

\* What agent.cancel_run(run_id) may do: return True, return False, raise.
EngineOutcomes == {"ok", "fail", "raise"}

\* The dict cancel_agent_run returns; raised: whether it raised instead.
CancelRet(id, success, error) ==
  [id |-> id, success |-> success, error |-> error, raised |-> FALSE]

\* The arguments of agent.cancel_run: the entry's agent and its run_id.
CancelCall(reg, id) == <<reg[id].agent, reg[id].run_id>>

\* A cancel_agent_run that deletes the entry before it looks at what
\* cancel_run returned.
CancelOutcome_DeleteFirst(reg, id, eng) ==
  IF id \notin DOMAIN reg
    THEN [reg |-> reg, ret |-> CancelRet(id, FALSE, "NotFound"), call |-> <<>>]
  ELSE IF reg[id].run_id = NoRunId
    THEN [reg |-> reg, ret |-> CancelRet(id, FALSE, "NotStarted"),
          call |-> <<>>]
  ELSE IF eng = "ok"
    THEN [reg |-> DictDel(reg, id), ret |-> CancelRet(id, TRUE, ""),
          call |-> CancelCall(reg, id)]
  ELSE IF eng = "fail"
    THEN [reg |-> DictDel(reg, id), ret |-> CancelRet(id, FALSE, "CancelFailed"),
          call |-> CancelCall(reg, id)]
  ELSE [reg |-> DictDel(reg, id), ret |-> CancelRet(id, FALSE, "Exception"),
        call |-> CancelCall(reg, id)]

\* A cancel_agent_run that forgets to delete the entry of a cancelled run.
CancelOutcome_KeepEntry(reg, id, eng) ==
  IF id \notin DOMAIN reg
    THEN [reg |-> reg, ret |-> CancelRet(id, FALSE, "NotFound"), call |-> <<>>]
  ELSE IF reg[id].run_id = NoRunId
    THEN [reg |-> reg, ret |-> CancelRet(id, FALSE, "NotStarted"),
          call |-> <<>>]
  ELSE IF eng = "ok"
    THEN [reg |-> reg, ret |-> CancelRet(id, TRUE, ""),
          call |-> CancelCall(reg, id)]
  ELSE IF eng = "fail"
    THEN [reg |-> reg, ret |-> CancelRet(id, FALSE, "CancelFailed"),
          call |-> CancelCall(reg, id)]
  ELSE [reg |-> reg, ret |-> CancelRet(id, FALSE, "Exception"),
        call |-> CancelCall(reg, id)]

\* A cancel_agent_run without the "if not run_id" test of line 1059.
CancelOutcome_NoRunIdTest(reg, id, eng) ==
  IF id \notin DOMAIN reg
    THEN [reg |-> reg, ret |-> CancelRet(id, FALSE, "NotFound"), call |-> <<>>]
  ELSE IF eng = "ok"
    THEN [reg |-> DictDel(reg, id), ret |-> CancelRet(id, TRUE, ""),
          call |-> CancelCall(reg, id)]
  ELSE IF eng = "fail"
    THEN [reg |-> reg, ret |-> CancelRet(id, FALSE, "CancelFailed"),
          call |-> CancelCall(reg, id)]
  ELSE [reg |-> reg, ret |-> CancelRet(id, FALSE, "Exception"),
        call |-> CancelCall(reg, id)]

\* A cancel_agent_run without the membership test of line 1043: the lookup
\* of line 1055 raises KeyError, which line 1101 reports as any other error.
CancelOutcome_NoMembershipTest(reg, id, eng) ==
  IF id \notin DOMAIN reg
    THEN [reg |-> reg, ret |-> CancelRet(id, FALSE, "Exception"), call |-> <<>>]
  ELSE IF reg[id].run_id = NoRunId
    THEN [reg |-> reg, ret |-> CancelRet(id, FALSE, "NotStarted"),
          call |-> <<>>]
  ELSE IF eng = "ok"
    THEN [reg |-> DictDel(reg, id), ret |-> CancelRet(id, TRUE, ""),
          call |-> CancelCall(reg, id)]
  ELSE IF eng = "fail"
    THEN [reg |-> reg, ret |-> CancelRet(id, FALSE, "CancelFailed"),
          call |-> CancelCall(reg, id)]
  ELSE [reg |-> reg, ret |-> CancelRet(id, FALSE, "Exception"),
        call |-> CancelCall(reg, id)]

\* cancel_agent_run on registry reg, the engine answering eng: the registry
\* it leaves, the dict it returns, and the arguments of the cancel_run call
\* it made (<<>> if it made none).
\*   line 1043  not in the registry        -> "Agent not found or already completed"
\*   line 1059  no run_id                  -> "Execution not started yet"
\*   line 1073  cancel_run returned True   -> del, success
\*   line 1092  cancel_run returned False  -> "Cancel failed - ..."
\*   line 1101  cancel_run raised          -> str(e)
CancelOutcome(reg, id, eng) ==
  IF id \notin DOMAIN reg
    THEN [reg |-> reg, ret |-> CancelRet(id, FALSE, "NotFound"), call |-> <<>>]
  ELSE IF reg[id].run_id = NoRunId
    THEN [reg |-> reg, ret |-> CancelRet(id, FALSE, "NotStarted"),
          call |-> <<>>]
  ELSE IF eng = "ok"
    THEN [reg |-> DictDel(reg, id), ret |-> CancelRet(id, TRUE, ""),
          call |-> CancelCall(reg, id)]
  ELSE IF eng = "fail"
    THEN [reg |-> reg, ret |-> CancelRet(id, FALSE, "CancelFailed"),
          call |-> CancelCall(reg, id)]
  ELSE [reg |-> reg, ret |-> CancelRet(id, FALSE, "Exception"),
        call |-> CancelCall(reg, id)]

NoCancelYet ==
  [id |-> "", success |-> FALSE, error |-> "", raised |-> FALSE,
   engine_called |-> FALSE]

(***************************************************************************)
(* Initial state: nothing registered, every execution pending.             *)
(***************************************************************************)
InitActivities ==
  /\ active_agents = <<>>
  /\ idOf \in {f \in [Execs -> Ids] : f[1] = "x1"}
  /\ pc = [e \in Execs |-> "pending"]
  /\ tpc = [e \in Execs |-> "idle"]
  /\ cur = [e \in Execs |-> NoRunId]
  /\ run_id_published = [e \in Execs |-> FALSE]
  /\ engine_runs = [e \in Execs |-> 0]
  /\ cancelled = {}
  /\ cancel_result = NoCancelYet
  /\ result = [e \in Execs |-> "none"]

InitService ==
  /\ mgr = <<>>
  /\ xpc = "pending"
  /\ xpath = "none"
  /\ xtpc = "idle"
  /\ xchunks = 0
  /\ run_id_seen = FALSE
  /\ full_response = <<>>
  /\ thread_result = ResultWithout
  /\ session_history = <<>>
  /\ execution_running = FALSE
  /\ last_persisted_length = 0
  /\ persistence_task = "none"
  /\ wakes = 0
  /\ persisted = <<>>
  /\ xresult = "none"

\* No call made yet by the retried operation.
NoCalls == [log |-> <<>>, value |-> <<>>, raised |-> FALSE]
NoResult == [success |-> FALSE, response |-> "", returned |-> FALSE]

InitRetry ==
  /\ loop_owner = 0
  /\ rpc = [e \in Execs |-> "pending"]
  /\ attempt = [e \in Execs |-> 0]
  /\ load_log = [e \in Execs |-> <<>>]
  /\ persist_log = [e \in Execs |-> <<>>]
  /\ loaded_history = [e \in Execs |-> <<>>]
  /\ response_content = [e \in Execs |-> ""]
  /\ rresult = [e \in Execs |-> NoResult]
  /\ spc = "pending"
  /\ sload = NoCalls
  /\ sresponse = ""
  /\ spersist = NoCalls
  /\ sresult = NoResult

\* No chunk at hand.
NoChunk == [run_id |-> NoRunId, content |-> ""]

InitStream ==
  /\ turn = 0
  /\ now = 0
  /\ execution_id = ""
  /\ message_id = ""
  /\ used_message_ids = {}
  /\ stpc = "idle"
  /\ chunk = NoChunk
  /\ consumed = <<>>
  /\ stream_run_id_published = FALSE
  /\ stream_full_response = ""
  /\ response_chunks = <<>>
  /\ events = <<>>
  /\ set_calls = <<>>

\* The invocations of tool_hook the engine makes in one execution; they may
\* run at the same time.
Invocations == {1, 2}

\* No error (Python's None in the local "error").
NoError == "None"

InitHook ==
  /\ hook_clock = 0
  /\ hook_pc = [i \in Invocations |-> "idle"]
  /\ hook_tool = [i \in Invocations |-> ""]
  /\ hook_id = [i \in Invocations |-> ""]
  /\ hook_status = [i \in Invocations |-> ""]
  /\ hook_error = [i \in Invocations |-> NoError]
  /\ hook_trace = <<>>

InitContext ==
  /\ ctx_pc = "idle"
  /\ session_messages = <<>>
  /\ messages_at_call = <<>>
  /\ context = <<>>
  /\ ctx_returned = <<>>

\* The run under the sink as it is, and the run of the same input every
\* publish of which the sink accepts.
Runs == {"actual", "reference"}

\* No input chosen yet.
NoTeamInput == [chunks |-> <<>>, ending |-> "end", fallback |-> "returns"]

\* Nothing returned yet.
NoTeamResult == [returned |-> FALSE, success |-> FALSE, response |-> "",
                 error |-> ""]

InitTeam ==
  /\ team_input = NoTeamInput
  /\ team_pc = [r \in Runs |-> "idle"]
  /\ team_visited = [r \in Runs |-> <<>>]
  /\ team_full_response = [r \in Runs |-> ""]
  /\ team_response_chunks = [r \in Runs |-> <<>>]
  /\ team_published = [r \in Runs |-> <<>>]
  /\ team_result = [r \in Runs |-> NoTeamResult]

Init ==
  /\ InitActivities /\ InitService /\ InitRetry /\ InitStream
  /\ InitHook /\ InitContext /\ InitTeam

(***************************************************************************)
(* execute_agent_llm                                                       *)
(***************************************************************************)
\* Lines 231-519: load the session, read the configuration, build the agent
\* and register it; the thread is then started (line 619).
ExecRegister(e) ==
  /\ pc[e] = "pending"
  /\ active_agents' = RegisterEntry(active_agents, idOf[e], e)
  /\ pc' = [pc EXCEPT ![e] = "running"]
  /\ tpc' = [tpc EXCEPT ![e] = "start"]
  /\ UNCHANGED <<idOf, cur, run_id_published, engine_runs,
                 cancelled, cancel_result, result>>
  /\ UNCHANGED <<svars, rvars, tvars, hvars, cvars, pvars>>

\* Lines 306-307 with 788-811: the configuration is missing, ValueError is
\* raised before the agent is registered and the handler cleans up.
ExecSetupFail(e) ==
  /\ pc[e] = "pending"
  /\ active_agents' = UnregisterEntry(active_agents, idOf[e])
  /\ pc' = [pc EXCEPT ![e] = "done"]
  /\ result' = [result EXCEPT ![e] = "Failed"]
  /\ UNCHANGED <<idOf, tpc, cur, run_id_published, engine_runs,
                 cancelled, cancel_result>>
  /\ UNCHANGED <<svars, rvars, tvars, hvars, cvars, pvars>>

(***************************************************************************)
(* stream_agent_run, on its own thread.  The locals of the thread (the    *)
(* chunk at hand, run_id_published) leave scope when it ends: they are     *)
(* then set back to their initial values.                                  *)
(***************************************************************************)
\* Lines 549-558: agent.run(prompt, stream=True, ...).
ThreadStart(e) ==
  /\ tpc[e] = "start"
  /\ tpc' = [tpc EXCEPT ![e] = "iter"]
  /\ engine_runs' = [engine_runs EXCEPT ![e] = @ + 1]
  /\ UNCHANGED <<active_agents, idOf, pc, cur, run_id_published,
                 cancelled, cancel_result, result>>
  /\ UNCHANGED <<svars, rvars, tvars, hvars, cvars, pvars>>

\* Lines 561-563: the next chunk, carrying run id rid while none was
\* published: it goes on to the registry test of line 568.  (A chunk without
\* run id, or one after the run id was published, changes nothing of this
\* state: lines 584-601 only add to the response.)
ThreadChunk(e) ==
  /\ tpc[e] = "iter"
  /\ ~run_id_published[e]
  /\ \E rid \in TokensOf(e) :
       /\ cur' = [cur EXCEPT ![e] = rid]
       /\ tpc' = [tpc EXCEPT ![e] = "check"]
  /\ UNCHANGED <<active_agents, idOf, pc, run_id_published, engine_runs,
                 cancelled, cancel_result, result>>
  /\ UNCHANGED <<svars, rvars, tvars, hvars, cvars, pvars>>

\* A stream_agent_run without the membership test of line 568: the store of
\* line 569 is always attempted.
ThreadCheck_NoMembershipTest(e) ==
  /\ tpc[e] = "check"
  /\ tpc' = [tpc EXCEPT ![e] = "write"]
  /\ UNCHANGED <<active_agents, idOf, pc, cur, run_id_published, engine_runs,
                 cancelled, cancel_result, result>>
  /\ UNCHANGED <<svars, rvars, tvars, hvars, cvars, pvars>>

\* Line 568: if input.execution_id in _active_agents; when it is not,
\* lines 573-582 follow at once.
ThreadCheck(e) ==
  /\ tpc[e] = "check"
  /\ IF idOf[e] \in DOMAIN active_agents
       THEN /\ tpc' = [tpc EXCEPT ![e] = "write"]
            /\ UNCHANGED <<run_id_published, cur>>
       ELSE /\ tpc' = [tpc EXCEPT ![e] = "iter"]
            /\ run_id_published' = [run_id_published EXCEPT ![e] = TRUE]
            /\ cur' = [cur EXCEPT ![e] = NoRunId]
  /\ UNCHANGED <<active_agents, idOf, pc, engine_runs,
                 cancelled, cancel_result, result>>
  /\ UNCHANGED <<svars, rvars, tvars, hvars, cvars, pvars>>

\* Line 569: _active_agents[id]["run_id"] = agno_run_id, then lines 573-582.
\* The key may have been deleted since line 568: KeyError, caught at 609.
ThreadWrite(e) ==
  /\ tpc[e] = "write"
  /\ IF idOf[e] \in DOMAIN active_agents
       THEN /\ active_agents' = StoreRunId(active_agents, idOf[e], cur[e])
            /\ run_id_published' = [run_id_published EXCEPT ![e] = TRUE]
            /\ tpc' = [tpc EXCEPT ![e] = "iter"]
       ELSE /\ tpc' = [tpc EXCEPT ![e] = "fallback"]
            /\ run_id_published' = [run_id_published EXCEPT ![e] = FALSE]
            /\ UNCHANGED active_agents
  /\ cur' = [cur EXCEPT ![e] = NoRunId]
  /\ UNCHANGED <<idOf, pc, engine_runs, cancelled, cancel_result, result>>
  /\ UNCHANGED <<svars, rvars, tvars, hvars, cvars, pvars>>

\* Lines 605-608: run_response is exhausted, the thread returns it.
ThreadEnd(e) ==
  /\ tpc[e] = "iter"
  /\ tpc' = [tpc EXCEPT ![e] = "returned"]
  /\ run_id_published' = [run_id_published EXCEPT ![e] = FALSE]
  /\ UNCHANGED <<active_agents, idOf, pc, cur, engine_runs, cancelled,
                 cancel_result, result>>
  /\ UNCHANGED <<svars, rvars, tvars, hvars, cvars, pvars>>

\* Line 609: iterating run_response raised.
ThreadIterError(e) ==
  /\ tpc[e] = "iter"
  /\ tpc' = [tpc EXCEPT ![e] = "fallback"]
  /\ run_id_published' = [run_id_published EXCEPT ![e] = FALSE]
  /\ UNCHANGED <<active_agents, idOf, pc, cur, engine_runs, cancelled,
                 cancel_result, result>>
  /\ UNCHANGED <<svars, rvars, tvars, hvars, cvars, pvars>>

\* Lines 610-615: agent.run(prompt, stream=False, ...), which returns or
\* raises out of the thread.
ThreadFallback(e) ==
  /\ tpc[e] = "fallback"
  /\ engine_runs' = [engine_runs EXCEPT ![e] = @ + 1]
  /\ \E out \in {"returned", "raised"} : tpc' = [tpc EXCEPT ![e] = out]
  /\ UNCHANGED <<active_agents, idOf, pc, cur, run_id_published,
                 cancelled, cancel_result, result>>
  /\ UNCHANGED <<svars, rvars, tvars, hvars, cvars, pvars>>

(***************************************************************************)
(* execute_agent_llm, after the await of line 619                          *)
(***************************************************************************)
\* Lines 619-770: the thread returned; the response is built and the
\* session persisted (failures of the persist are only logged).
ExecPersist(e) ==
  /\ pc[e] = "running"
  /\ tpc[e] = "returned"
  /\ pc' = [pc EXCEPT ![e] = "cleanup"]
  /\ UNCHANGED <<active_agents, idOf, tpc, cur, run_id_published,
                 engine_runs, cancelled, cancel_result, result>>
  /\ UNCHANGED <<svars, rvars, tvars, hvars, cvars, pvars>>

\* Lines 772-786: remove the entry and return the success dict.
ExecCleanup(e) ==
  /\ pc[e] = "cleanup"
  /\ active_agents' = UnregisterEntry(active_agents, idOf[e])
  /\ pc' = [pc EXCEPT ![e] = "done"]
  /\ result' = [result EXCEPT ![e] = "Completed"]
  /\ UNCHANGED <<idOf, tpc, cur, run_id_published, engine_runs,
                 cancelled, cancel_result>>
  /\ UNCHANGED <<svars, rvars, tvars, hvars, cvars, pvars>>

\* Lines 788-811: the thread raised; clean up and return the failure dict.
ExecFail(e) ==
  /\ pc[e] = "running"
  /\ tpc[e] = "raised"
  /\ active_agents' = UnregisterEntry(active_agents, idOf[e])
  /\ pc' = [pc EXCEPT ![e] = "done"]
  /\ result' = [result EXCEPT ![e] = "Failed"]
  /\ UNCHANGED <<idOf, tpc, cur, run_id_published, engine_runs,
                 cancelled, cancel_result>>
  /\ UNCHANGED <<svars, rvars, tvars, hvars, cvars, pvars>>

\* Line 619: the activity's task is cancelled while it awaits the thread.
\* asyncio.CancelledError is no Exception: line 788 does not catch it, the
\* activity ends cancelled and the thread runs on.
ExecCancelled(e) ==
  /\ pc[e] = "running"
  /\ tpc[e] \notin {"returned", "raised"}
  /\ pc' = [pc EXCEPT ![e] = "done"]
  /\ result' = [result EXCEPT ![e] = "Cancelled"]
  /\ UNCHANGED <<active_agents, idOf, tpc, cur, run_id_published,
                 engine_runs, cancelled, cancel_result>>
  /\ UNCHANGED <<svars, rvars, tvars, hvars, cvars, pvars>>

(***************************************************************************)
(* cancel_agent_run                                                        *)
(***************************************************************************)
\* Lines 1041-1114, for execution id `id`, the engine answering eng.
\* cancelled gains the agent when its own run was cancelled while its
\* stream was being consumed.
CancelAgentRunWith(id, eng) ==
  LET out == CancelOutcome(active_agents, id, eng) IN
    /\ active_agents' = out.reg
    /\ cancel_result' = [id |-> out.ret.id, success |-> out.ret.success,
                         error |-> out.ret.error,
                         raised |-> out.ret.raised,
                         engine_called |-> out.call # <<>>]
    /\ cancelled' = IF /\ out.ret.success
                       /\ AgentOfToken(out.call[2]) = out.call[1]
                       /\ tpc[out.call[1]] \in {"iter", "check", "write"}
                      THEN cancelled \cup {out.call[1]}
                      ELSE cancelled
    /\ UNCHANGED <<idOf, pc, tpc, cur, run_id_published, engine_runs,
                   result>>
    /\ UNCHANGED <<svars, rvars, tvars, hvars, cvars, pvars>>

CancelAgentRun(id) == \E eng \in EngineOutcomes : CancelAgentRunWith(id, eng)

Next ==
  \/ \E e \in Execs :
       \/ ExecRegister(e)
       \/ ExecSetupFail(e)
       \/ ThreadStart(e)
       \/ ThreadChunk(e)
       \/ ThreadCheck(e)
       \/ ThreadWrite(e)
       \/ ThreadEnd(e)
       \/ ThreadIterError(e)
       \/ ThreadFallback(e)
       \/ ExecPersist(e)
       \/ ExecCleanup(e)
       \/ ExecFail(e)
       \/ ExecCancelled(e)
  \/ \E id \in Ids : CancelAgentRun(id)

Spec == Init /\ [][Next]_vars

(***************************************************************************)
(* services/agent_executor.py: one call of AgentExecutorService.execute.   *)
(*                                                                         *)
(* CancellationManager and StreamingHelper are not among the sources: they *)
(* are modelled from sections 4.1 and 4.4 of the specification.            *)
(***************************************************************************)
\* input.execution_id and the Agent built at line 183.
XId == "x1"
XAgent == 1
\* What load_session may return: nothing, or an earlier turn.
Histories ==
  {<<>>, <<Msg("user", <<"q">>), Msg("assistant", <<"r">>)>>}

\* chunk.content values: none, or a piece of text.
Contents == {"", "A", "B"}

\* What persist_session may do: return True, return False, raise.
PersistOutcomes == {"ok", "fail", "raise"}

\* CancellationManager.register: stores or overwrites, run token none.
MgrRegister(reg, id, instance) ==
  DictSet(reg, id, [instance |-> instance, run_id |-> NoRunId])

\* CancellationManager.set_run_id: no-op when absent, first writer wins.
MgrSetRunId(reg, id, rid) ==
  IF id \notin DOMAIN reg THEN reg
  ELSE IF reg[id].run_id # NoRunId THEN reg
  ELSE [reg EXCEPT ![id] = [@ EXCEPT !.run_id = rid]]

\* CancellationManager.cancel: NotFound, NotStarted, or the engine's answer;
\* the entry is removed on success only.
MgrCancel(reg, id, eng) ==
  IF id \notin DOMAIN reg
    THEN [reg |-> reg, success |-> FALSE, error |-> "NotFound"]
  ELSE IF reg[id].run_id = NoRunId
    THEN [reg |-> reg, success |-> FALSE, error |-> "NotStarted"]
  ELSE IF eng = "ok"
    THEN [reg |-> DictDel(reg, id), success |-> TRUE, error |-> ""]
  ELSE [reg |-> reg, success |-> FALSE, error |-> "CancelFailed"]

\* CancellationManager.unregister: idempotent removal.
MgrUnregister(reg, id) ==
  IF id \in DOMAIN reg THEN DictDel(reg, id) ELSE reg

\* SessionService.extract_messages_from_result (lines 138-170): one dict
\* per message of the result (its role and content; the timestamp and the
\* user fields are left out of the model), none when the result has no
\* "messages" attribute or an empty one.
ExtractMessages(res) ==
  IF res.has_messages /\ res.messages # <<>>
    THEN [i \in 1..Len(res.messages) |->
            Msg(res.messages[i].role, res.messages[i].content)]
    ELSE <<>>

\* Lines 76-94 and 397-419: the session is loaded, LITELLM_API_KEY is not
\* set: ValueError, caught at line 397.
XSetupFail ==
  /\ xpc = "pending"
  /\ \E h \in Histories : session_history' = h
  /\ mgr' = MgrUnregister(mgr, XId)
  /\ xpc' = "done"
  /\ xresult' = "Failed"
  /\ UNCHANGED <<xpath, xtpc, xchunks, run_id_seen, full_response,
                 thread_result, execution_running, last_persisted_length,
                 persistence_task, wakes, persisted>>
  /\ UNCHANGED <<avars, rvars, tvars, hvars, cvars, pvars>>

\* Lines 76-304: load the session, build the agent, register it, create the
\* periodic task and await the thread.
XStart ==
  /\ xpc = "pending"
  /\ \E h \in Histories : session_history' = h
  /\ mgr' = MgrRegister(mgr, XId, XAgent)
  /\ execution_running' = TRUE
  /\ last_persisted_length' = 0
  /\ persistence_task' = "sleeping"
  /\ xtpc' = "start"
  /\ xpc' = "awaiting"
  /\ UNCHANGED <<xpath, xchunks, run_id_seen, full_response,
                 thread_result, wakes, persisted, xresult>>
  /\ UNCHANGED <<avars, rvars, tvars, hvars, cvars, pvars>>

\* Lines 217-224: agent.run(prompt, stream=True, ...).
XThreadStart ==
  /\ xtpc = "start"
  /\ xtpc' = "iter"
  /\ UNCHANGED <<mgr, xpc, xpath, xchunks, run_id_seen, full_response,
                 thread_result, session_history, execution_running,
                 last_persisted_length, persistence_task, wakes, persisted,
                 xresult>>
  /\ UNCHANGED <<avars, rvars, tvars, hvars, cvars, pvars>>

\* Lines 227-239: one chunk; handle_run_id passes the first run id seen to
\* set_run_id, handle_content_chunk adds the content to the response.
XThreadChunk ==
  /\ xtpc = "iter"
  /\ xchunks < MaxChunks
  /\ xchunks' = xchunks + 1
  /\ \E rid \in {NoRunId} \cup TokensOf(XAgent) :
       IF rid # NoRunId /\ ~run_id_seen
         THEN /\ mgr' = MgrSetRunId(mgr, XId, rid)
              /\ run_id_seen' = TRUE
         ELSE UNCHANGED <<mgr, run_id_seen>>
  /\ \E content \in Contents :
       full_response' = IF content # "" THEN Append(full_response, content)
                                        ELSE full_response
  /\ UNCHANGED <<xpc, xpath, xtpc, thread_result, session_history,
                 execution_running, last_persisted_length, persistence_task,
                 wakes, persisted, xresult>>
  /\ UNCHANGED <<avars, rvars, tvars, hvars, cvars, pvars>>

\* Lines 241-242: run_response is exhausted and returned; the iterator of a
\* streamed run has no "messages" (agent_activities.py, line 687).
XThreadEnd ==
  /\ xtpc = "iter"
  /\ xtpc' = "returned"
  /\ thread_result' = ResultWithout
  /\ UNCHANGED <<mgr, xpc, xpath, xchunks, run_id_seen, full_response,
                 session_history, execution_running, last_persisted_length,
                 persistence_task, wakes, persisted, xresult>>
  /\ UNCHANGED <<avars, rvars, tvars, hvars, cvars, pvars>>

\* Line 244: iterating run_response raised.
XThreadIterError ==
  /\ xtpc = "iter"
  /\ xtpc' = "fallback"
  /\ UNCHANGED <<mgr, xpc, xpath, xchunks, run_id_seen, full_response,
                 thread_result, session_history, execution_running,
                 last_persisted_length, persistence_task, wakes, persisted,
                 xresult>>
  /\ UNCHANGED <<avars, rvars, tvars, hvars, cvars, pvars>>

\* Lines 246-250: agent.run(prompt, stream=False, ...): it raises, or it
\* returns a response with or without messages.
XThreadFallback ==
  /\ xtpc = "fallback"
  /\ \/ /\ xtpc' = "raised"
        /\ UNCHANGED thread_result
     \/ /\ xtpc' = "returned"
        /\ \E r \in {ResultWithout, ResultWith} : thread_result' = r
  /\ UNCHANGED <<mgr, xpc, xpath, xchunks, run_id_seen, full_response,
                 session_history, execution_running, last_persisted_length,
                 persistence_task, wakes, persisted, xresult>>
  /\ UNCHANGED <<avars, rvars, tvars, hvars, cvars, pvars>>

\* A periodic task that records the length whatever persist_session did.
PeriodicWake_RecordAlways ==
  /\ persistence_task = "sleeping"
  /\ wakes < MaxWakes
  /\ wakes' = wakes + 1
  /\ IF ~execution_running
       THEN /\ persistence_task' = "done"
            /\ UNCHANGED <<persisted, last_persisted_length>>
       ELSE /\ UNCHANGED persistence_task
            /\ IF /\ full_response # <<>>
                  /\ Len(full_response) > last_persisted_length
                 THEN \E out \in PersistOutcomes :
                        /\ persisted' =
                             Append(persisted,
                                    [snapshot |-> TRUE, out |-> out,
                                     messages |-> session_history \o
                                       <<Msg("assistant", full_response)>>])
                        /\ last_persisted_length' =
                             Len(full_response)
                 ELSE UNCHANGED <<persisted, last_persisted_length>>
  /\ UNCHANGED <<mgr, xpc, xpath, xtpc, xchunks, run_id_seen, full_response,
                 thread_result, session_history, execution_running,
                 xresult>>
  /\ UNCHANGED <<avars, rvars, tvars, hvars, cvars, pvars>>

\* Lines 257-296: the sleep of the periodic task ends.  The flag is read
\* first; a snapshot is persisted when the response has grown since the last
\* good one.  persist_session is a plain call: nothing else runs on the
\* event loop until it is back.
PeriodicWake ==
  /\ persistence_task = "sleeping"
  /\ wakes < MaxWakes
  /\ wakes' = wakes + 1
  /\ IF ~execution_running
       THEN /\ persistence_task' = "done"
            /\ UNCHANGED <<persisted, last_persisted_length>>
       ELSE /\ UNCHANGED persistence_task
            /\ IF /\ full_response # <<>>
                  /\ Len(full_response) > last_persisted_length
                 THEN \E out \in PersistOutcomes :
                        /\ persisted' =
                             Append(persisted,
                                    [snapshot |-> TRUE, out |-> out,
                                     messages |-> session_history \o
                                       <<Msg("assistant", full_response)>>])
                        /\ last_persisted_length' =
                             IF out = "ok" THEN Len(full_response)
                                           ELSE last_persisted_length
                 ELSE UNCHANGED <<persisted, last_persisted_length>>
  /\ UNCHANGED <<mgr, xpc, xpath, xtpc, xchunks, run_id_seen, full_response,
                 thread_result, session_history, execution_running,
                 xresult>>
  /\ UNCHANGED <<avars, rvars, tvars, hvars, cvars, pvars>>

\* Line 304: the thread returned a result.
XAwaitReturned ==
  /\ xpc = "awaiting"
  /\ xtpc = "returned"
  /\ xpath' = "returned"
  /\ xpc' = "finally"
  /\ UNCHANGED <<mgr, xtpc, xchunks, run_id_seen, full_response,
                 thread_result, session_history, execution_running,
                 last_persisted_length, persistence_task, wakes, persisted,
                 xresult>>
  /\ UNCHANGED <<avars, rvars, tvars, hvars, cvars, pvars>>

\* Line 304: the thread raised.
XAwaitRaised ==
  /\ xpc = "awaiting"
  /\ xtpc = "raised"
  /\ xpath' = "raised"
  /\ xpc' = "finally"
  /\ UNCHANGED <<mgr, xtpc, xchunks, run_id_seen, full_response,
                 thread_result, session_history, execution_running,
                 last_persisted_length, persistence_task, wakes, persisted,
                 xresult>>
  /\ UNCHANGED <<avars, rvars, tvars, hvars, cvars, pvars>>

\* Lines 305-314: the task is cancelled while it awaits the thread; the
\* handler asks the manager to cancel and re-raises.  The thread runs on.
XAwaitCancelled ==
  /\ xpc = "awaiting"
  /\ \E eng \in EngineOutcomes : mgr' = MgrCancel(mgr, XId, eng).reg
  /\ xpath' = "cancelled"
  /\ xpc' = "finally"
  /\ UNCHANGED <<xtpc, xchunks, run_id_seen, full_response,
                 thread_result, session_history, execution_running,
                 last_persisted_length, persistence_task, wakes, persisted,
                 xresult>>
  /\ UNCHANGED <<avars, rvars, tvars, hvars, cvars, pvars>>

\* A final persist that puts the messages of the turn before the history.
FinalPersist_NewFirst(log, history, new_messages) ==
  IF history \o new_messages # <<>>
    THEN Append(log, [snapshot |-> FALSE,
                      messages |-> new_messages \o history])
    ELSE log

\* Lines 350-380: complete_session = session_history + new_messages, and
\* the persist_session calls after it when it is not empty.
FinalPersist(log, history, new_messages) ==
  IF history \o new_messages # <<>>
    THEN Append(log, [snapshot |-> FALSE,
                      messages |-> history \o new_messages])
    ELSE log

\* An execute without the handler of line 397: the error of the thread
\* leaves execute.
AfterFinally_Reraise ==
  /\ xpc' = "done"
  /\ IF xpath = "returned"
       THEN /\ persisted' = FinalPersist(persisted, session_history,
                                         ExtractMessages(thread_result))
            /\ mgr' = MgrUnregister(mgr, XId)
            /\ xresult' = "Completed"
     ELSE IF xpath = "raised"
       THEN /\ xresult' = "Raised"
            /\ UNCHANGED <<mgr, persisted>>
     ELSE /\ xresult' = "Cancelled"
          /\ UNCHANGED <<mgr, persisted>>

\* What follows the finally block, up to the end of execute (no await):
\*   the thread returned: lines 323-395, final persist, unregister, success;
\*   the thread raised: lines 397-419, unregister, failure;
\*   cancelled: CancelledError is no Exception, line 397 does not catch it
\*   and it leaves execute.
AfterFinally ==
  /\ xpc' = "done"
  /\ IF xpath = "returned"
       THEN /\ persisted' = FinalPersist(persisted, session_history,
                                         ExtractMessages(thread_result))
            /\ mgr' = MgrUnregister(mgr, XId)
            /\ xresult' = "Completed"
     ELSE IF xpath = "raised"
       THEN /\ mgr' = MgrUnregister(mgr, XId)
            /\ xresult' = "Failed"
            /\ UNCHANGED persisted
     ELSE /\ xresult' = "Cancelled"
          /\ UNCHANGED <<mgr, persisted>>

\* An execute without the finally block: nothing stops the periodic task.
FinallySkipped ==
  /\ xpc = "finally"
  /\ AfterFinally
  /\ UNCHANGED <<execution_running, persistence_task>>
  /\ UNCHANGED <<xpath, xtpc, xchunks, run_id_seen, full_response,
                 thread_result, session_history, last_persisted_length,
                 wakes>>
  /\ UNCHANGED <<avars, rvars, tvars, hvars, cvars, pvars>>

\* A finally block that gives up the wait for the periodic task without
\* cancelling it.
Finally_NoCancel ==
  /\ \/ /\ xpc = "finally"
        /\ execution_running' = FALSE
        /\ xpc' = "joining"
        /\ UNCHANGED <<mgr, persisted, xresult, persistence_task>>
     \/ /\ xpc = "joining"
        /\ AfterFinally
        /\ UNCHANGED <<execution_running, persistence_task>>
  /\ UNCHANGED <<xpath, xtpc, xchunks, run_id_seen, full_response,
                 thread_result, session_history, last_persisted_length,
                 wakes>>
  /\ UNCHANGED <<avars, rvars, tvars, hvars, cvars, pvars>>

\* Lines 315-321, the finally block: the flag is cleared and the periodic
\* task awaited for 2 s; then the task has ended by itself, or the wait
\* times out and cancels it, or the wait is itself cancelled (which cancels
\* the task too and leaves execute with CancelledError).
Finally ==
  /\ \/ /\ xpc = "finally"
        /\ execution_running' = FALSE
        /\ xpc' = "joining"
        /\ UNCHANGED <<mgr, persisted, xresult, persistence_task>>
     \/ /\ xpc = "joining"
        /\ persistence_task = "done"
        /\ AfterFinally
        /\ UNCHANGED <<execution_running, persistence_task>>
     \/ /\ xpc = "joining"
        /\ persistence_task = "sleeping"
        /\ persistence_task' = "cancelled"
        /\ AfterFinally
        /\ UNCHANGED execution_running
     \/ /\ xpc = "joining"
        /\ persistence_task = "sleeping"
        /\ persistence_task' = "cancelled"
        /\ xpc' = "done"
        /\ xresult' = "Cancelled"
        /\ UNCHANGED <<mgr, persisted, execution_running>>
  /\ UNCHANGED <<xpath, xtpc, xchunks, run_id_seen, full_response,
                 thread_result, session_history, last_persisted_length,
                 wakes>>
  /\ UNCHANGED <<avars, rvars, tvars, hvars, cvars, pvars>>

\* CancellationManager.cancel called from outside execute.
MgrCancelExternal ==
  /\ \E eng \in EngineOutcomes : mgr' = MgrCancel(mgr, XId, eng).reg
  /\ UNCHANGED <<xpc, xpath, xtpc, xchunks, run_id_seen, full_response,
                 thread_result, session_history, execution_running,
                 last_persisted_length, persistence_task, wakes, persisted,
                 xresult>>
  /\ UNCHANGED <<avars, rvars, tvars, hvars, cvars, pvars>>

NextExec ==
  \/ XSetupFail
  \/ XStart
  \/ XThreadStart
  \/ XThreadChunk
  \/ XThreadEnd
  \/ XThreadIterError
  \/ XThreadFallback
  \/ PeriodicWake
  \/ XAwaitReturned
  \/ XAwaitRaised
  \/ XAwaitCancelled
  \/ Finally
  \/ MgrCancelExternal

SpecExec == Init /\ [][NextExec]_vars

\* execute under the scheduling of asyncio: a coroutine that can run does
\* run.  Once the await of line 304 is over, the finally block and what
\* follows it are taken: the wait of line 319 ends within 2 s.
SpecExecFair == SpecExec /\ WF_vars(Finally)

(***************************************************************************)
(* The retried store operations: the session load and the final persist of *)
(* execute_agent_llm (agent_activities.py, inline loops), and              *)
(* SessionService.load_session / persist_session (session_service.py) as   *)
(* agent_executor.py calls them.                                           *)
(*                                                                         *)
(* execute_agent_llm and cancel_agent_run are coroutines of one event      *)
(* loop (worker.py, lines 338-354: no activity executor is given): between *)
(* two awaits a coroutine has the loop to itself.  The only await of       *)
(* execute_agent_llm is line 619; its sleeps are time.sleep (lines 279,    *)
(* 737, 753), which keep the loop.  The registry and the thread are left   *)
(* to Spec: here an execution is its load, its run and its persist.        *)
(*                                                                         *)
(* A worker is built with one of the two implementations of execute: once  *)
(* one of them has started, the other does not run.                        *)
(*                                                                         *)
(* utils.retry_utils.retry_with_backoff is not among the sources: it is    *)
(* modelled from section 4.2 of the specification.                         *)
(***************************************************************************)
\* max_retries = 3 of both inline loops (lines 243 and 709).
max_retries == 3
\* @retry_with_backoff(max_retries=3, initial_delay=1.0)
retry_max_retries == 3
initial_delay == 1

\* What control_plane.get_session may do: return a session with messages,
\* return nothing (or a session without messages), raise
\* httpx.TimeoutException, raise another error.
LoadOutcomes == {"data", "notfound", "timeout", "error"}
\* What control_plane.persist_session may do: return True, return False,
\* raise httpx.TimeoutException, raise another error.
StoreOutcomes == {"true", "false", "timeout", "error"}

\* The messages of the session the store holds.
PreviousTurn == <<Msg("user", <<"q">>), Msg("assistant", <<"r">>)>>
\* response_content values.
Responses == {"A", "AB"}

\* Entries of a log: a call of the store with its outcome, a sleep.
Call(out) == [kind |-> "call", out |-> out, secs |-> 0]
Sleep(secs) == [kind |-> "sleep", out |-> "", secs |-> secs]

\* A load loop that treats "no session" as a failure to retry.
LoadStep_RetryNotFound(out, att) ==
  IF out \in {"data", "error"} THEN "break"
  ELSE IF att < max_retries - 1 THEN "sleep"
  ELSE "end"

\* A load loop without a last iteration: every timeout is slept on and
\* tried again.
LoadStep_RetryForever(out, att) ==
  IF out \in {"data", "notfound", "error"} THEN "break" ELSE "sleep"

\* One iteration of the load loop (lines 244-297), attempt = att:
\*   a session or none: break; a timeout: sleep and continue unless this
\*   was the last iteration; another error: break.
LoadStep(out, att) ==
  IF out \in {"data", "notfound", "error"} THEN "break"
  ELSE IF att < max_retries - 1 THEN "sleep"
  ELSE "end"

\* A persist loop that lets an error of the store out of the loop.
PersistStep_Raises(out, att) ==
  IF out = "true" THEN "break"
  ELSE IF out \in {"timeout", "error"} THEN "raise"
  ELSE IF att < max_retries - 1 THEN "sleep"
  ELSE "end"

\* One iteration of the persist loop (lines 712-753), attempt = att:
\*   True: break; False or any exception: sleep unless this was the last
\*   iteration, and go on.
PersistStep(out, att) ==
  IF out = "true" THEN "break"
  ELSE IF att < max_retries - 1 THEN "sleep"
  ELSE "end"

\* The store calls of a log that failed.
FailedCalls(log) ==
  {i \in 1..Len(log) :
     log[i].kind = "call" /\ log[i].out \in {"false", "timeout", "error"}}

\* The store calls that have failed so far in the inline loops.
RECURSIVE SumFailures(_)
SumFailures(E) ==
  IF E = {} THEN 0
  ELSE LET e == CHOOSE x \in E : TRUE
       IN Cardinality(FailedCalls(load_log[e]))
            + Cardinality(FailedCalls(persist_log[e]))
            + SumFailures(E \ {e})

\* Whether the store may answer out now.
MayAnswer(out) ==
  out \in {"false", "timeout", "error"} => SumFailures(Execs) < MaxStoreFailures

\* The success dict of lines 777-786 and the failure dict of lines 805-811.
SuccessDict(response) ==
  [success |-> TRUE, response |-> response, returned |-> TRUE]
FailureDict == [success |-> FALSE, response |-> "", returned |-> TRUE]

\* Lines 192-244: the activity starts; without session_id the load is
\* skipped (line 239).
RStart(e) ==
  /\ spc = "pending"
  /\ loop_owner = 0
  /\ rpc[e] = "pending"
  /\ loop_owner' = e
  /\ \E has_session \in BOOLEAN :
       rpc' = [rpc EXCEPT ![e] = IF has_session THEN "load" ELSE "setup"]
  /\ UNCHANGED <<attempt, load_log, persist_log, loaded_history,
                 response_content, rresult, spc, sload, sresponse, spersist,
                 sresult>>
  /\ UNCHANGED <<avars, svars, tvars, hvars, cvars, pvars>>

\* Lines 244-297: one iteration of the load loop, up to the start of its
\* sleep (line 279) or to the end of the loop.  Line 788 would turn an
\* exception leaving the loop into the failure dict.
RLoadAttempt(e) ==
  /\ loop_owner = e
  /\ rpc[e] = "load"
  /\ \E out \in LoadOutcomes :
       LET step == LoadStep(out, attempt[e]) IN
         /\ MayAnswer(out)
         /\ load_log' =
              [load_log EXCEPT ![e] =
                 IF step = "sleep"
                   THEN @ \o <<Call(out), Sleep(2 ^ attempt[e])>>
                   ELSE Append(@, Call(out))]
         /\ loaded_history' =
              [loaded_history EXCEPT ![e] =
                 IF out = "data" /\ step = "break" THEN PreviousTurn ELSE @]
         /\ rpc' = [rpc EXCEPT ![e] =
                      IF step = "sleep" THEN "load_sleep"
                      ELSE IF step = "raise" THEN "done"
                      ELSE "setup"]
         /\ rresult' = [rresult EXCEPT ![e] =
                          IF step = "raise" THEN FailureDict ELSE @]
         /\ loop_owner' = IF step = "raise" THEN 0 ELSE loop_owner
  /\ UNCHANGED <<attempt, persist_log, response_content, spc, sload,
                 sresponse, spersist, sresult>>
  /\ UNCHANGED <<avars, svars, tvars, hvars, cvars, pvars>>

\* Lines 279-280: time.sleep returns; continue with the next iteration.
RLoadWake(e) ==
  /\ loop_owner = e
  /\ rpc[e] = "load_sleep"
  /\ attempt' = [attempt EXCEPT ![e] = @ + 1]
  /\ rpc' = [rpc EXCEPT ![e] = "load"]
  /\ UNCHANGED <<loop_owner, load_log, persist_log, loaded_history,
                 response_content, rresult, spc, sload, sresponse, spersist,
                 sresult>>
  /\ UNCHANGED <<avars, svars, tvars, hvars, cvars, pvars>>

\* Lines 299-619: the agent is built and the thread started; the coroutine
\* awaits it and gives up the event loop.
RAwait(e) ==
  /\ loop_owner = e
  /\ rpc[e] = "setup"
  /\ rpc' = [rpc EXCEPT ![e] = "await"]
  /\ loop_owner' = 0
  /\ UNCHANGED <<attempt, load_log, persist_log, loaded_history,
                 response_content, rresult, spc, sload, sresponse, spersist,
                 sresult>>
  /\ UNCHANGED <<avars, svars, tvars, hvars, cvars, pvars>>

\* Lines 619-710: the thread has returned and the coroutine is resumed; the
\* response is extracted and the persist loop entered.
RResume(e) ==
  /\ loop_owner = 0
  /\ rpc[e] = "await"
  /\ loop_owner' = e
  /\ \E r \in Responses :
       response_content' = [response_content EXCEPT ![e] = r]
  /\ attempt' = [attempt EXCEPT ![e] = 0]
  /\ rpc' = [rpc EXCEPT ![e] = "persist"]
  /\ UNCHANGED <<load_log, persist_log, loaded_history, rresult, spc, sload,
                 sresponse, spersist, sresult>>
  /\ UNCHANGED <<avars, svars, tvars, hvars, cvars, pvars>>

\* Lines 712-786: one iteration of the persist loop, up to the start of its
\* sleep (lines 737, 753) or, when the loop is over, to the return of the
\* success dict.  Line 788 turns an exception leaving the loop into the
\* failure dict.
RPersistAttempt(e) ==
  /\ loop_owner = e
  /\ rpc[e] = "persist"
  /\ \E out \in StoreOutcomes :
       LET step == PersistStep(out, attempt[e]) IN
         /\ MayAnswer(out)
         /\ persist_log' =
              [persist_log EXCEPT ![e] =
                 IF step = "sleep"
                   THEN @ \o <<Call(out), Sleep(2 ^ attempt[e])>>
                   ELSE Append(@, Call(out))]
         /\ rpc' = [rpc EXCEPT ![e] =
                      IF step = "sleep" THEN "persist_sleep" ELSE "done"]
         /\ rresult' = [rresult EXCEPT ![e] =
                          IF step = "sleep" THEN @
                          ELSE IF step = "raise" THEN FailureDict
                          ELSE SuccessDict(response_content[e])]
         /\ loop_owner' = IF step = "sleep" THEN loop_owner ELSE 0
  /\ UNCHANGED <<attempt, load_log, loaded_history, response_content, spc,
                 sload, sresponse, spersist, sresult>>
  /\ UNCHANGED <<avars, svars, tvars, hvars, cvars, pvars>>

\* Lines 737 and 753: time.sleep returns; the next iteration follows.
RPersistWake(e) ==
  /\ loop_owner = e
  /\ rpc[e] = "persist_sleep"
  /\ attempt' = [attempt EXCEPT ![e] = @ + 1]
  /\ rpc' = [rpc EXCEPT ![e] = "persist"]
  /\ UNCHANGED <<loop_owner, load_log, persist_log, loaded_history,
                 response_content, rresult, spc, sload, sresponse, spersist,
                 sresult>>
  /\ UNCHANGED <<avars, svars, tvars, hvars, cvars, pvars>>

\* cancel_agent_run, a coroutine of the same event loop: it runs when the
\* loop is free.
RCancel(id) ==
  /\ loop_owner = 0
  /\ CancelAgentRun(id)

(***************************************************************************)
(* SessionService under retry_with_backoff.                                *)
(***************************************************************************)
\* The body of load_session (lines 38-70), session_id given: the store's
\* messages, [] when there are none or on an error that is no timeout; a
\* timeout is raised again for the decorator.
LoadSessionBody(out) ==
  IF out = "data" THEN [raised |-> FALSE, value |-> PreviousTurn]
  ELSE IF out = "timeout" THEN [raised |-> TRUE, value |-> <<>>]
  ELSE [raised |-> FALSE, value |-> <<>>]

\* The body of persist_session (lines 87-115), messages not empty: what the
\* store returned, False on any exception.
PersistSessionBody(out) ==
  [raised |-> FALSE, value |-> IF out = "true" THEN <<TRUE>> ELSE <<FALSE>>]

\* The log of k calls with the sleeps between them.
RetryLog(outs, k) ==
  [m \in 1..(2 * k - 1) |->
     IF m % 2 = 1 THEN Call(outs[(m + 1) \div 2])
                  ELSE Sleep(initial_delay * 2 ^ ((m \div 2) - 1))]

\* retry_with_backoff around a body, the store answering outs[i] to the
\* i-th call and the body then doing body[i]: the body is called until it
\* does not raise, at most retry_max_retries + 1 times, sleeping
\* initial_delay * 2^attempt between two calls; the error of the last call
\* propagates.  (The bodies raise the retryable timeout only.)
RetryWithBackoff(outs, body) ==
  LET last == retry_max_retries + 1
      good == {i \in 1..last : ~body[i].raised}
      k == IF good = {} THEN last
           ELSE CHOOSE i \in good : \A j \in good : i <= j
  IN [log |-> RetryLog(outs, k),
      value |-> body[k].value,
      raised |-> body[k].raised]

\* agent_executor.py lines 74-79 and 397-419: load_session inside the try
\* of execute; an exception ends execute with the failure dict.  Without
\* session_id load_session returns [] at once (line 38).
SvcLoad ==
  /\ spc = "pending"
  /\ \A e \in Execs : rpc[e] = "pending"
  /\ \E has_session \in BOOLEAN :
     \E outs \in [1..(retry_max_retries + 1) -> LoadOutcomes] :
       LET got == IF has_session
                    THEN RetryWithBackoff(outs,
                           [i \in DOMAIN outs |-> LoadSessionBody(outs[i])])
                    ELSE NoCalls
       IN /\ sload' = got
          /\ spc' = IF got.raised THEN "done" ELSE "running"
          /\ sresult' = IF got.raised THEN FailureDict ELSE sresult
  /\ UNCHANGED <<loop_owner, rpc, attempt, load_log, persist_log,
                 loaded_history, response_content, rresult, sresponse,
                 spersist>>
  /\ UNCHANGED <<avars, svars, tvars, hvars, cvars, pvars>>

\* agent_executor.py lines 81-348: the run, which produces the response.
SvcRun ==
  /\ spc = "running"
  /\ \E r \in Responses : sresponse' = r
  /\ spc' = "persisting"
  /\ UNCHANGED <<loop_owner, rpc, attempt, load_log, persist_log,
                 loaded_history, response_content, rresult, sload, spersist,
                 sresult>>
  /\ UNCHANGED <<avars, svars, tvars, hvars, cvars, pvars>>

\* agent_executor.py lines 361-395: persist_session with the complete
\* session, then the success dict; an exception would reach line 397.
SvcPersist ==
  /\ spc = "persisting"
  /\ \E outs \in [1..(retry_max_retries + 1) -> StoreOutcomes] :
       LET got == RetryWithBackoff(outs,
                      [i \in DOMAIN outs |-> PersistSessionBody(outs[i])])
       IN /\ spersist' = got
          /\ sresult' = IF got.raised THEN FailureDict
                                      ELSE SuccessDict(sresponse)
  /\ spc' = "done"
  /\ UNCHANGED <<loop_owner, rpc, attempt, load_log, persist_log,
                 loaded_history, response_content, rresult, sload,
                 sresponse>>
  /\ UNCHANGED <<avars, svars, tvars, hvars, cvars, pvars>>

NextRetry ==
  \/ \E e \in Execs :
       \/ RStart(e)
       \/ RLoadAttempt(e)
       \/ RLoadWake(e)
       \/ RAwait(e)
       \/ RResume(e)
       \/ RPersistAttempt(e)
       \/ RPersistWake(e)
  \/ \E id \in Ids : RCancel(id)
  \/ SvcLoad
  \/ SvcRun
  \/ SvcPersist

SpecRetry == Init /\ [][NextRetry]_vars

\* The retried operations under the scheduling the claim of termination
\* assumes: every store call returns or raises, every time.sleep returns,
\* the thread returns (the chunk sequence is finite), and a coroutine that
\* can run on the event loop does run.
SpecRetryFair ==
  /\ SpecRetry
  /\ \A e \in Execs :
       WF_vars(RLoadAttempt(e) \/ RLoadWake(e) \/ RAwait(e) \/ RResume(e)
                 \/ RPersistAttempt(e) \/ RPersistWake(e))
  /\ WF_vars(SvcRun \/ SvcPersist)

(***************************************************************************)
(* The consumption of the stream by stream_agent_run (agent_activities.py, *)
(* lines 534-619), chunk by chunk, for turns that follow one another on    *)
(* one worker.  The registry is _active_agents; its entry may be removed   *)
(* under the thread by an execution of the same execution_id that ends or  *)
(* by a cancel_agent_run that succeeds.                                    *)
(*                                                                         *)
(* The client behind control_plane.publish_event is not among the sources: *)
(* by section 4.4 of the specification a publish never raises.             *)
(***************************************************************************)
avars_rest == <<idOf, pc, tpc, cur, run_id_published, engine_runs,
                cancelled, cancel_result, result>>

\* A message id without the timestamp.
MessageId_NoTime(id, t) == id

\* Line 539: f"{input.execution_id}_{int(time.time() * 1000000)}".
MessageId(id, t) == id \o "_" \o ToString(t)

\* control_plane.publish_event: the event goes to the sink, nothing is
\* raised into the loop.
PublishEvent(log, type, run_id, content, mid) ==
  Append(log, [type |-> type, run_id |-> run_id, content |-> content,
               message_id |-> mid])

\* Lines 192-558: a turn starts.  The session is loaded and the agent built
\* (the clock of time.time() is then past its last reading, here by one
\* microsecond), the agent is registered
\* (lines 515-519), the message id is made (line 539) and the thread calls
\* agent.run(prompt, stream=True) (lines 549-558).
TStartTurn ==
  /\ stpc \in {"idle", "done"}
  /\ turn < MaxTurns
  /\ turn' = turn + 1
  /\ now' = now + 1
  /\ \E id \in Ids : execution_id' = id
  /\ message_id' = MessageId(execution_id', now')
  /\ used_message_ids' = IF turn = 0 THEN used_message_ids
                                     ELSE used_message_ids \cup {message_id}
  /\ active_agents' = RegisterEntry(active_agents, execution_id', turn')
  /\ stpc' = "iter"
  /\ chunk' = NoChunk
  /\ consumed' = <<>>
  /\ stream_run_id_published' = FALSE
  /\ stream_full_response' = ""
  /\ response_chunks' = <<>>
  /\ events' = <<>>
  /\ set_calls' = <<>>
  /\ UNCHANGED avars_rest
  /\ UNCHANGED <<svars, rvars, hvars, cvars, pvars>>

\* Line 561: the iterator yields a chunk.
TNext ==
  /\ stpc = "iter"
  /\ Len(consumed) < MaxChunks
  /\ \E rid \in {NoRunId} \cup TokensOf(turn) : \E content \in Contents :
       chunk' = [run_id |-> rid, content |-> content]
  /\ consumed' = Append(consumed, chunk')
  /\ stpc' = "runid"
  /\ UNCHANGED <<turn, now, execution_id, message_id, used_message_ids,
                 stream_run_id_published, stream_full_response,
                 response_chunks, events, set_calls>>
  /\ UNCHANGED <<active_agents, avars_rest>>
  /\ UNCHANGED <<svars, rvars, hvars, cvars, pvars>>

\* Lines 563-568: a chunk with a run id while none was published goes to
\* the registry (the membership test of line 568); any other chunk goes on
\* to its content.
TRunId ==
  /\ stpc = "runid"
  /\ IF ~stream_run_id_published /\ chunk.run_id # NoRunId
       THEN /\ set_calls' = Append(set_calls, chunk.run_id)
            /\ stpc' = IF execution_id \in DOMAIN active_agents
                         THEN "write" ELSE "publish"
       ELSE /\ stpc' = "content"
            /\ UNCHANGED set_calls
  /\ UNCHANGED <<turn, now, execution_id, message_id, used_message_ids,
                 chunk, consumed, stream_run_id_published,
                 stream_full_response, response_chunks, events>>
  /\ UNCHANGED <<active_agents, avars_rest>>
  /\ UNCHANGED <<svars, rvars, hvars, cvars, pvars>>

\* Line 569: the store into the entry; KeyError when the entry has gone
\* since line 568, which the handler of line 609 catches.
TWrite ==
  /\ stpc = "write"
  /\ IF execution_id \in DOMAIN active_agents
       THEN /\ active_agents' =
                 StoreRunId(active_agents, execution_id, chunk.run_id)
            /\ stpc' = "publish"
       ELSE /\ stpc' = "fallback"
            /\ UNCHANGED active_agents
  /\ UNCHANGED <<turn, now, execution_id, message_id, used_message_ids,
                 chunk, consumed, stream_run_id_published,
                 stream_full_response, response_chunks, events, set_calls>>
  /\ UNCHANGED avars_rest
  /\ UNCHANGED <<svars, rvars, hvars, cvars, pvars>>

\* A stream_agent_run that does not set run_id_published.
TPublish_NoFlag ==
  /\ stpc = "publish"
  /\ events' = PublishEvent(events, "run_started", chunk.run_id, "", "")
  /\ stpc' = "content"
  /\ UNCHANGED <<turn, now, execution_id, message_id, used_message_ids,
                 chunk, consumed, stream_run_id_published,
                 stream_full_response, response_chunks, set_calls>>
  /\ UNCHANGED <<active_agents, avars_rest>>
  /\ UNCHANGED <<svars, rvars, hvars, cvars, pvars>>

\* Lines 573-582: the run_started event, then run_id_published = True.
TPublish ==
  /\ stpc = "publish"
  /\ events' = PublishEvent(events, "run_started", chunk.run_id, "", "")
  /\ stream_run_id_published' = TRUE
  /\ stpc' = "content"
  /\ UNCHANGED <<turn, now, execution_id, message_id, used_message_ids,
                 chunk, consumed, stream_full_response, response_chunks,
                 set_calls>>
  /\ UNCHANGED <<active_agents, avars_rest>>
  /\ UNCHANGED <<svars, rvars, hvars, cvars, pvars>>

\* A stream_agent_run that puts the content before the response.
TContent_Prepend ==
  /\ stpc = "content"
  /\ IF chunk.content # ""
       THEN /\ stream_full_response' = chunk.content \o stream_full_response
            /\ response_chunks' = Append(response_chunks, chunk.content)
            /\ events' = PublishEvent(events, "message_chunk", NoRunId,
                                      chunk.content, message_id)
       ELSE UNCHANGED <<stream_full_response, response_chunks, events>>
  /\ stpc' = "iter"
  /\ UNCHANGED <<turn, now, execution_id, message_id, used_message_ids,
                 chunk, consumed, stream_run_id_published, set_calls>>
  /\ UNCHANGED <<active_agents, avars_rest>>
  /\ UNCHANGED <<svars, rvars, hvars, cvars, pvars>>

\* Lines 584-601: a chunk with content adds it to full_response and to
\* response_chunks and publishes a message_chunk event with the message id
\* of the turn; a chunk without content does nothing here.
TContent ==
  /\ stpc = "content"
  /\ IF chunk.content # ""
       THEN /\ stream_full_response' = stream_full_response \o chunk.content
            /\ response_chunks' = Append(response_chunks, chunk.content)
            /\ events' = PublishEvent(events, "message_chunk", NoRunId,
                                      chunk.content, message_id)
       ELSE UNCHANGED <<stream_full_response, response_chunks, events>>
  /\ stpc' = "iter"
  /\ UNCHANGED <<turn, now, execution_id, message_id, used_message_ids,
                 chunk, consumed, stream_run_id_published, set_calls>>
  /\ UNCHANGED <<active_agents, avars_rest>>
  /\ UNCHANGED <<svars, rvars, hvars, cvars, pvars>>

\* Lines 605-608: the iterator is exhausted, the thread returns it.
TEnd ==
  /\ stpc = "iter"
  /\ stpc' = "returned"
  /\ UNCHANGED <<turn, now, execution_id, message_id, used_message_ids,
                 chunk, consumed, stream_run_id_published,
                 stream_full_response, response_chunks, events, set_calls>>
  /\ UNCHANGED <<active_agents, avars_rest>>
  /\ UNCHANGED <<svars, rvars, hvars, cvars, pvars>>

\* Line 609: the iterator raised.
TIterError ==
  /\ stpc = "iter"
  /\ stpc' = "fallback"
  /\ UNCHANGED <<turn, now, execution_id, message_id, used_message_ids,
                 chunk, consumed, stream_run_id_published,
                 stream_full_response, response_chunks, events, set_calls>>
  /\ UNCHANGED <<active_agents, avars_rest>>
  /\ UNCHANGED <<svars, rvars, hvars, cvars, pvars>>

\* Lines 610-615: agent.run(prompt, stream=False), which returns or raises.
TFallback ==
  /\ stpc = "fallback"
  /\ \E out \in {"fb_returned", "fb_raised"} : stpc' = out
  /\ UNCHANGED <<turn, now, execution_id, message_id, used_message_ids,
                 chunk, consumed, stream_run_id_published,
                 stream_full_response, response_chunks, events, set_calls>>
  /\ UNCHANGED <<active_agents, avars_rest>>
  /\ UNCHANGED <<svars, rvars, hvars, cvars, pvars>>

\* Lines 619-811: the thread is over; execute_agent_llm removes the entry
\* (lines 772-775 or 788-791) and returns.
TFinish ==
  /\ stpc \in {"returned", "fb_returned", "fb_raised"}
  /\ active_agents' = UnregisterEntry(active_agents, execution_id)
  /\ stpc' = "done"
  /\ UNCHANGED <<turn, now, execution_id, message_id, used_message_ids,
                 chunk, consumed, stream_run_id_published,
                 stream_full_response, response_chunks, events, set_calls>>
  /\ UNCHANGED avars_rest
  /\ UNCHANGED <<svars, rvars, hvars, cvars, pvars>>

\* Lines 772-775 of another execution of the same execution_id, or line
\* 1084 of cancel_agent_run: the entry is removed while the thread runs.
TEntryRemoved ==
  /\ stpc \in {"iter", "runid", "write", "publish", "content"}
  /\ execution_id \in DOMAIN active_agents
  /\ active_agents' = UnregisterEntry(active_agents, execution_id)
  /\ UNCHANGED tvars
  /\ UNCHANGED avars_rest
  /\ UNCHANGED <<svars, rvars, hvars, cvars, pvars>>

NextStream ==
  \/ TStartTurn
  \/ TNext
  \/ TRunId
  \/ TWrite
  \/ TPublish
  \/ TContent
  \/ TEnd
  \/ TIterError
  \/ TFallback
  \/ TFinish
  \/ TEntryRemoved

SpecStream == Init /\ [][NextStream]_vars

(***************************************************************************)
(* Properties of the registry and of cancel_agent_run, under Spec.         *)
(***************************************************************************)
HasEntry(id) == id \in DOMAIN active_agents
HasRunId(id) == HasEntry(id) /\ active_agents[id].run_id # NoRunId

\* C4: an execution whose run is cancelled through cancel(id) while it
\* streams, after its run token was recorded, ends in the Cancelled state
\* (neither Completed nor Failed), and the registry then holds no entry of
\* that execution.
C4_CancelEndsCancelled ==
  \A e \in Execs :
    (pc[e] = "done" /\ e \in cancelled) =>
      /\ result[e] = "Cancelled"
      /\ ~(HasEntry(idOf[e]) /\ active_agents[idOf[e]].agent = e)

\* C5: when cancel(id) finds an entry with a run token and the engine's
\* cancel reports success, it returns success, the entry of id is gone, and
\* a cancel(id) made next returns NotFound whatever the engine would say.
C5_CancelSuccessRemovesEntry ==
  [][\A id \in Ids :
       (CancelAgentRunWith(id, "ok") /\ HasRunId(id)) =>
         /\ cancel_result'.success
         /\ cancel_result'.id = id
         /\ id \notin DOMAIN active_agents'
         /\ \A eng \in EngineOutcomes :
              CancelOutcome(active_agents', id, eng).ret.error = "NotFound"]_vars

\* C5 happens: a cancel has succeeded and its id is no longer registered.
C5_Witness ==
  /\ cancel_result.success
  /\ cancel_result.engine_called
  /\ ~HasEntry(cancel_result.id)

\* C6: cancel(id) on an entry whose run token is unset returns the
\* structured NotStarted failure, makes no engine call and leaves the
\* registry as it was.
C6_CancelNotStarted ==
  [][\A id \in Ids : \A eng \in EngineOutcomes :
       (CancelAgentRunWith(id, eng) /\ HasEntry(id) /\ ~HasRunId(id)) =>
         /\ cancel_result' = [id |-> id, success |-> FALSE,
                              error |-> "NotStarted", raised |-> FALSE,
                              engine_called |-> FALSE]
         /\ active_agents' = active_agents
         /\ cancelled' = cancelled]_vars

\* C6 happens: NotStarted was returned for an id that is registered without
\* a run token.
C6_Witness ==
  /\ cancel_result.error = "NotStarted"
  /\ HasEntry(cancel_result.id)
  /\ ~HasRunId(cancel_result.id)

\* C7: cancel(id) on an id without entry returns the structured NotFound
\* failure without raising, makes no engine call and leaves the whole
\* registry as it was.
C7_CancelNotFound ==
  [][\A id \in Ids : \A eng \in EngineOutcomes :
       (CancelAgentRunWith(id, eng) /\ ~HasEntry(id)) =>
         /\ cancel_result' = [id |-> id, success |-> FALSE,
                              error |-> "NotFound", raised |-> FALSE,
                              engine_called |-> FALSE]
         /\ active_agents' = active_agents
         /\ cancelled' = cancelled]_vars

\* C7 happens: NotFound was returned for the id of an execution that had
\* registered and has ended.
C7_Witness ==
  /\ cancel_result.error = "NotFound"
  /\ ~HasEntry(cancel_result.id)
  /\ \E e \in Execs :
       idOf[e] = cancel_result.id /\ pc[e] = "done" /\ engine_runs[e] > 0

\* C8: when the engine's cancel returns False or raises, cancel(id) returns
\* a structured failure without raising and leaves the registry as it was,
\* so that a later cancel(id) calls the engine with the same agent and run
\* token.
C8_CancelFailureKeepsEntry ==
  [][\A id \in Ids : \A eng \in {"fail", "raise"} :
       (CancelAgentRunWith(id, eng) /\ HasRunId(id)) =>
         /\ ~cancel_result'.success
         /\ ~cancel_result'.raised
         /\ cancel_result'.engine_called
         /\ active_agents' = active_agents
         /\ \A eng2 \in EngineOutcomes :
              CancelOutcome(active_agents', id, eng2).call
                = CancelCall(active_agents, id)]_vars

\* C8 happens: the engine's cancel failed and the entry is still there with
\* its run token.
C8_Witness ==
  /\ cancel_result.error \in {"CancelFailed", "Exception"}
  /\ cancel_result.engine_called
  /\ HasRunId(cancel_result.id)

\* C9: the registry holds at most one entry per execution id, and
\* registering an id stores the new agent with no run token; when the id had
\* an entry the key set, and so the number of entries, does not change and
\* the other entries are untouched.
C9_RegisterReplaces ==
  /\ [](Cardinality(DOMAIN active_agents) <= Cardinality(Ids))
  /\ [][\A e \in Execs :
          ExecRegister(e) =>
            /\ active_agents'[idOf[e]] = [agent |-> e, run_id |-> NoRunId]
            /\ \A i \in DOMAIN active_agents \ {idOf[e]} :
                 i \in DOMAIN active_agents'
                   /\ active_agents'[i] = active_agents[i]
            /\ HasEntry(idOf[e]) =>
                 /\ DOMAIN active_agents' = DOMAIN active_agents
                 /\ Cardinality(DOMAIN active_agents')
                      = Cardinality(DOMAIN active_agents)]_vars

\* C9 happens: execution 2 has just registered the id whose entry held
\* agent 1 and agent 1's run token (no cancel was ever made, so nothing
\* removed that entry).
C9_Witness ==
  /\ idOf[1] = idOf[2]
  /\ cancel_result = NoCancelYet
  /\ pc[1] = "running" /\ tpc[1] = "iter" /\ run_id_published[1]
  /\ pc[2] = "running" /\ tpc[2] = "start"
  /\ active_agents[idOf[2]] = [agent |-> 2, run_id |-> NoRunId]

\* C10: once an entry holds a run token, a later store of a run token for
\* the same id leaves the recorded token as it was (first writer wins), also
\* when the store comes from another stream under the same execution id.
C10_FirstWriterWins ==
  [][\A e \in Execs :
       (ThreadWrite(e) /\ HasRunId(idOf[e])) =>
         active_agents'[idOf[e]].run_id = active_agents[idOf[e]].run_id]_vars

\* C11: a run token reported for an id that has no entry is dropped: the
\* membership test leaves the registry as it was and the stream goes on
\* (nothing is raised), and the store of a run token never adds a key to the
\* registry, so an entry removed by a successful cancel or by an unregister
\* does not come back.
C11_SetRunIdAbsentNoOp ==
  [][\A e \in Execs :
       /\ (ThreadCheck(e) /\ ~HasEntry(idOf[e])) =>
            /\ active_agents' = active_agents
            /\ tpc'[e] = "iter"
            /\ run_id_published'[e]
       /\ ThreadWrite(e) => DOMAIN active_agents' = DOMAIN active_agents]_vars

\* C11 happens: a thread holds a run token to store (it is at line 568) and
\* the entry of its id was removed by a successful cancel.
C11_Witness ==
  \E e \in Execs :
    /\ tpc[e] = "check"
    /\ cur[e] \in TokensOf(e)
    /\ ~HasEntry(idOf[e])
    /\ cancel_result.success
    /\ cancel_result.id = idOf[e]

\* C12: the unregister of execute_agent_llm (on its success path and in its
\* error handler, also when the execution failed before registering) leaves
\* the id without entry and every other entry as it was, and doing it again
\* changes nothing.
C12_UnregisterIdempotent ==
  [][\A e \in Execs :
       (ExecCleanup(e) \/ ExecFail(e) \/ ExecSetupFail(e)) =>
         /\ ~(idOf[e] \in DOMAIN active_agents')
         /\ \A i \in DOMAIN active_agents \ {idOf[e]} :
              i \in DOMAIN active_agents'
                /\ active_agents'[i] = active_agents[i]
         /\ UnregisterEntry(active_agents', idOf[e]) = active_agents']_vars

\* C12 happens: an execution failed before it registered (its unregister
\* found no entry of its id), while the entry of another id, which holds no
\* run token yet, is still there.
C12_Witness ==
  \E e \in Execs :
    /\ pc[e] = "done" /\ result[e] = "Failed" /\ engine_runs[e] = 0
    /\ \E i \in DOMAIN active_agents :
         i # idOf[e] /\ active_agents[i].run_id = NoRunId

\* C13: the store of a run token by the worker thread (membership test, then
\* write) is atomic with respect to register, cancel and unregister of the
\* same id: the write of line 569 always finds the key the test of line 568
\* found, so it never raises.
C13_SetRunIdAtomic ==
  [][\A e \in Execs : ThreadWrite(e) => HasEntry(idOf[e])]_vars

\* C26: an execution whose run was cancelled by a successful cancel(id)
\* while it streamed never returns the success result nor the generic
\* failure result, and the engine is not run a second time for it.
C26_CancelledIsDistinct ==
  \A e \in Execs :
    e \in cancelled =>
      /\ result[e] \notin {"Completed", "Failed"}
      /\ engine_runs[e] <= 1

\* C35: within one execution the engine is started at most once; an
\* iteration error part-way through the stream does not start it again.
C35_EngineStartedOnce ==
  \A e \in Execs : engine_runs[e] <= 1

\* C36: a run id stored in an entry was reported by a run of the agent
\* stored in that entry, also when two executions of the same id overlap.
C36_RunIdBelongsToAgent ==
  \A id \in DOMAIN active_agents :
    active_agents[id].run_id # NoRunId =>
      AgentOfToken(active_agents[id].run_id) = active_agents[id].agent

(***************************************************************************)
(* Properties of the retried store operations, under SpecRetry.            *)
(***************************************************************************)
CallsOf(log) == {i \in 1..Len(log) : log[i].kind = "call"}
SleepSecs(log) ==
  LET sl == SelectSeq(log, LAMBDA x : x.kind = "sleep")
  IN [i \in 1..Len(sl) |-> sl[i].secs]
AllTimedOut(log) ==
  /\ CallsOf(log) # {}
  /\ \A i \in CallsOf(log) : log[i].out = "timeout"
\* The load loop of execution e is over.
LoadOver(e) == rpc[e] \notin {"pending", "load", "load_sleep"}
InBackoff(e) == rpc[e] \in {"load_sleep", "persist_sleep"}

\* C14: a session load of execute_agent_llm whose every attempt timed out,
\* once its retry loop has given up, has made exactly 4 store calls with
\* sleeps of 1, 2 and 4 seconds between them and none after the last.
C14_LoadTimeoutsFourAttempts ==
  \A e \in Execs :
    (LoadOver(e) /\ AllTimedOut(load_log[e])) =>
      /\ Cardinality(CallsOf(load_log[e])) = 4
      /\ SleepSecs(load_log[e]) = <<1, 2, 4>>
      /\ load_log[e][Len(load_log[e])].kind = "call"

\* C15: a store call that failed with an error that is no timeout is the
\* last entry of its log: no sleep and no further attempt follow it, in the
\* session load and in the session persist alike.
C15_FatalErrorNotRetried ==
  /\ \A e \in Execs : \A log \in {load_log[e], persist_log[e]} :
       \A i \in CallsOf(log) : log[i].out = "error" => i = Len(log)
  /\ \A log \in {sload.log, spersist.log} :
       \A i \in CallsOf(log) : log[i].out = "error" => i = Len(log)

\* C16: while an execution sleeps in a retry backoff, a cancel request can
\* be served and every execution that has not started can start.
C16_BackoffDoesNotBlock ==
  \A e \in Execs :
    InBackoff(e) =>
      /\ \A id \in Ids : ENABLED RCancel(id)
      /\ \A f \in Execs \ {e} : rpc[f] = "pending" => ENABLED RStart(f)

\* C17: when every attempt to load the session timed out and the retries
\* are exhausted, the load gives an empty history without raising and the
\* execution goes on instead of ending with the failure dict.
C17_LoadExhaustedContinues ==
  /\ \A e \in Execs :
       (LoadOver(e) /\ AllTimedOut(load_log[e])) =>
         /\ loaded_history[e] = <<>>
         /\ rresult[e] # FailureDict
  /\ (spc # "pending" /\ AllTimedOut(sload.log)) =>
       /\ ~sload.raised
       /\ sload.value = <<>>
       /\ sresult # FailureDict

\* C18: a store call answered "not found" ends the session load: no sleep
\* and no further call follow it, and the history loaded is empty; when it
\* is the first call, it is the only one.
C18_NotFoundNoRetry ==
  /\ \A e \in Execs : \A i \in CallsOf(load_log[e]) :
       load_log[e][i].out = "notfound" =>
         /\ i = Len(load_log[e])
         /\ loaded_history[e] = <<>>
         /\ rpc[e] \in {"setup", "await", "persist", "persist_sleep", "done"}
  /\ \A i \in CallsOf(sload.log) :
       sload.log[i].out = "notfound" =>
         /\ i = Len(sload.log)
         /\ sload.value = <<>>
         /\ ~sload.raised

\* C18 happens: an execution has loaded its session with one store call,
\* answered "not found", and runs with an empty history.
C18_Witness ==
  \E e \in Execs :
    /\ load_log[e] = <<Call("notfound")>>
    /\ rpc[e] = "await"
    /\ loaded_history[e] = <<>>

\* C19: whatever the store answers to the final persist (False, a timeout,
\* another error, on any or all attempts) an execution whose run completed
\* never returns the failure dict: it returns the success dict with the
\* response of the run.
C19_PersistFailureKeepsResult ==
  /\ \A e \in Execs :
       /\ rresult[e] # FailureDict
       /\ rpc[e] = "done" => rresult[e] = SuccessDict(response_content[e])
  /\ spc \in {"persisting", "done"} /\ ~sload.raised =>
       /\ ~spersist.raised
       /\ sresult # FailureDict
       /\ spc = "done" => sresult = SuccessDict(sresponse)

\* C19 happens: every attempt of the final persist of an execution failed,
\* once with False, once with a timeout and once with another error, and the
\* execution has returned success.
C19_Witness ==
  \E e \in Execs :
    /\ rpc[e] = "done"
    /\ {persist_log[e][i].out : i \in FailedCalls(persist_log[e])}
         = {"false", "timeout", "error"}
    /\ CallsOf(persist_log[e]) = FailedCalls(persist_log[e])
    /\ rresult[e].success

\* C20: a final persist of execute_agent_llm whose every attempt timed out
\* has made max retries + 1 = 4 store calls when it gives up, as the load
\* policy of the specification has it.
C20_PersistTimeoutsFourAttempts ==
  \A e \in Execs :
    (rpc[e] = "done" /\ AllTimedOut(persist_log[e])) =>
      Cardinality(CallsOf(persist_log[e])) = 4

\* C38: every execute that has started returns: its load loop and its
\* persist loop call the store at most max_retries times each, and every
\* started execution reaches its return (of execute_agent_llm, and of
\* AgentExecutorService.execute over SessionService).
C38_ExecuteTerminates ==
  /\ [](\A e \in Execs :
          /\ Cardinality(CallsOf(load_log[e])) <= max_retries
          /\ Cardinality(CallsOf(persist_log[e])) <= max_retries)
  /\ [](/\ Cardinality(CallsOf(sload.log)) <= retry_max_retries + 1
        /\ Cardinality(CallsOf(spersist.log)) <= retry_max_retries + 1)
  /\ \A e \in Execs : (rpc[e] # "pending") ~> rresult[e].returned
  /\ (spc # "pending") ~> sresult.returned

\* C38 happens: an execution whose load timed out on every attempt and
\* whose persist then succeeded has returned.
C38_Witness ==
  \E e \in Execs :
    /\ rresult[e].returned
    /\ Cardinality(CallsOf(load_log[e])) = max_retries
    /\ AllTimedOut(load_log[e])
    /\ Cardinality(CallsOf(persist_log[e])) = 1

(***************************************************************************)
(* Properties of AgentExecutorService.execute, under SpecExec.             *)
(***************************************************************************)
FinalCalls == {i \in 1..Len(persisted) : ~persisted[i].snapshot}
SnapshotCalls == {i \in 1..Len(persisted) : persisted[i].snapshot}

\* C1: once execute has exited, by completion, by a failure of the
\* computation or by a cancellation signal (also one that arrives before a
\* run token was set, so that the manager's cancel fails), the manager holds
\* no entry for the execution id.
C1_UnregisteredOnEveryExit ==
  xpc = "done" => XId \notin DOMAIN mgr

\* C2: on each terminal path of an execution that ran (Completed, Failed,
\* Cancelled) exactly one final persist was attempted, with the loaded
\* history followed by the new turn: the user message and the assistant
\* message holding the response accumulated so far.
C2_OneFinalPersistOnEveryExit ==
  (xpc = "done" /\ xpath # "none") =>
    /\ Cardinality(FinalCalls) = 1
    /\ \A i \in FinalCalls :
         persisted[i].messages =
           session_history \o
             <<Msg("user", Prompt), Msg("assistant", full_response)>>

\* C3: once the final persist has been issued no snapshot persist follows
\* it (the final persist is the last persist_session call of the execution),
\* and the periodic task had then ended or been cancelled.
C3_NoSnapshotAfterFinal ==
  \A i \in FinalCalls :
    /\ i = Len(persisted)
    /\ persistence_task \in {"done", "cancelled"}
    /\ ~execution_running

\* C3 happens: a snapshot was persisted while the execution ran, and the
\* final persist was issued after it.
C3_Witness ==
  /\ xpc = "done"
  /\ xresult = "Completed"
  /\ SnapshotCalls # {}
  /\ FinalCalls # {}

\* s is a prefix of t.
IsPrefix(s, t) == Len(s) <= Len(t) /\ SubSeq(t, 1, Len(s)) = s
\* The roles of a message sequence, in order.
Roles(ms) == [i \in 1..Len(ms) |-> ms[i].role]

\* C21: the final persist of an execution writes at least as many messages
\* as every snapshot persisted during that execution.
C21_FinalCountAtLeastSnapshots ==
  \A i \in SnapshotCalls : \A j \in FinalCalls :
    Len(persisted[j].messages) >= Len(persisted[i].messages)

\* C22: every snapshot is a prefix of what the final persist writes: its
\* roles are a prefix of the final roles, and its assistant content is a
\* prefix of the final assistant content.
C22_SnapshotPrefixOfFinal ==
  \A i \in SnapshotCalls : \A j \in FinalCalls :
    LET snap == persisted[i].messages
        final == persisted[j].messages
    IN /\ IsPrefix(Roles(snap), Roles(final))
       /\ final[Len(final)].role = "assistant"
       /\ IsPrefix(snap[Len(snap)].content, final[Len(final)].content)

\* C23: every message sequence passed to persist_session, snapshot or
\* final, begins with the history load_session returned, unchanged and in
\* the same order.
C23_PersistBeginsWithHistory ==
  \A i \in 1..Len(persisted) :
    IsPrefix(session_history, persisted[i].messages)

\* C23 happens: a history was loaded, a snapshot was persisted, and the
\* final persist wrote the history and the messages of the turn.
C23_Witness ==
  /\ xpc = "done"
  /\ session_history # <<>>
  /\ SnapshotCalls # {}
  /\ \E j \in FinalCalls :
       Len(persisted[j].messages) > Len(session_history)

\* C24: when the engine streamed the chunks "A" then "B" and execute
\* returned, the result is Completed with the response "AB", the final
\* persist wrote exactly the loaded history, the user message with the
\* prompt and the assistant message with "AB", and the manager holds no
\* entry.
C24_EndToEnd ==
  (/\ xpc = "done"
   /\ xpath = "returned"
   /\ full_response = <<"A", "B">>
   /\ thread_result = ResultWithout) =>
    /\ xresult = "Completed"
    /\ Cardinality(FinalCalls) = 1
    /\ \A j \in FinalCalls :
         persisted[j].messages =
           session_history \o
             <<Msg("user", Prompt), Msg("assistant", <<"A", "B">>)>>
    /\ mgr = <<>>

C27_StateOrder ==
  [][/\ (XId \notin DOMAIN mgr /\ XId \in DOMAIN mgr') =>
          (xpc = "pending" /\ xpc' = "awaiting")
     /\ (xtpc \in {"start", "fallback"} /\ xtpc' # xtpc) =>
          xpc \notin {"pending", "done"}
     /\ (Len(persisted') > Len(persisted)
           /\ persisted'[Len(persisted')].snapshot) =>
          xpc \notin {"pending", "done"}]_vars

\* C37: once the await of the thread has ended, by a result, an exception
\* or a cancellation, execution_running is cleared and the periodic task
\* ends (by itself or cancelled); the task never outlives execute.
C37_PeriodicTaskTerminates ==
  /\ (xpath # "none") ~>
       (~execution_running /\ persistence_task \in {"done", "cancelled"})
  /\ [](xpc = "done" /\ xpath # "none" =>
          ~execution_running /\ persistence_task \in {"done", "cancelled"})

\* C37 happens: the await was cancelled and the periodic task, still in
\* its sleep, was cancelled before execute ended.
C37_Witness ==
  /\ xpc = "done"
  /\ xpath = "cancelled"
  /\ ~execution_running
  /\ persistence_task = "cancelled"

\* C39: the periodic task persists a snapshot only when the response is
\* not empty and longer than last_persisted_length; last_persisted_length
\* changes only in a step whose snapshot persist returned True, to the
\* length of the response; it never decreases and never exceeds the length
\* of the response.
C39_SnapshotOnlyOnGrowth ==
  [][LET snap == /\ Len(persisted') = Len(persisted) + 1
                 /\ persisted'[Len(persisted')].snapshot
     IN /\ snap => /\ full_response # <<>>
                    /\ Len(full_response) > last_persisted_length
        /\ last_persisted_length' # last_persisted_length =>
             /\ snap
             /\ persisted'[Len(persisted')].out = "ok"
             /\ last_persisted_length' = Len(full_response)
        /\ last_persisted_length' >= last_persisted_length
        /\ last_persisted_length' <= Len(full_response')]_vars

\* C39 happens: a snapshot failed and left the recorded length alone, the
\* next one succeeded and recorded the length of the response.
C39_Witness ==
  /\ Len(persisted) = 2
  /\ persisted[1].snapshot /\ persisted[1].out = "fail"
  /\ persisted[2].snapshot /\ persisted[2].out = "ok"
  /\ last_persisted_length = Len(full_response)
  /\ last_persisted_length > 0

(***************************************************************************)
(* Properties of the stream consumption, under SpecStream.                 *)
(***************************************************************************)
\* The chunks of the turn that the loop has handled to the end: all the
\* chunks yielded, but the one at hand when the thread is inside the loop
\* body.
Handled ==
  IF stpc \in {"runid", "write", "publish", "content"}
    THEN SubSeq(consumed, 1, Len(consumed) - 1)
    ELSE consumed

\* The concatenation of the contents of a chunk sequence, in order.
RECURSIVE ConcatContents(_)
ConcatContents(cs) ==
  IF cs = <<>> THEN ""
  ELSE ConcatContents(SubSeq(cs, 1, Len(cs) - 1)) \o cs[Len(cs)].content

\* The events of one type, in the order of their publication.
EventsOf(type) == SelectSeq(events, LAMBDA ev : ev.type = type)
\* The chunks that carry a content, and those that carry a run id.
WithContent(cs) == SelectSeq(cs, LAMBDA c : c.content # "")
WithRunId(cs) == SelectSeq(cs, LAMBDA c : c.run_id # NoRunId)

\* C28: while the stream is consumed without error, and when it has ended,
\* the accumulated response is the concatenation, in arrival order, of the
\* contents of the chunks handled; one message_chunk event and one entry of
\* response_chunks exist per chunk with a non-empty content, in that
\* order, and none for a chunk without content.
C28_ResponseIsConcatenation ==
  stpc \in {"iter", "runid", "write", "publish", "content", "returned"} =>
    /\ stream_full_response = ConcatContents(Handled)
    /\ response_chunks =
         [i \in 1..Len(WithContent(Handled)) |->
            WithContent(Handled)[i].content]
    /\ [i \in 1..Len(EventsOf("message_chunk")) |->
          EventsOf("message_chunk")[i].content] = response_chunks

\* C28 happens: the stream yielded "A" then "B" and ended.
C28_Witness ==
  /\ stpc = "returned"
  /\ Len(consumed) = 2
  /\ consumed[1].content = "A"
  /\ consumed[2].content = "B"
  /\ stream_full_response = "AB"

\* C29: at most one run_started event is published and at most one run id
\* reaches the registry in a turn, both with the run id of the first chunk
\* that carries one; between two chunks and at the end of the stream there
\* is exactly one of each when a handled chunk carried a run id, and none
\* when no chunk did.
C29_RunStartedOnce ==
  /\ Len(EventsOf("run_started")) <= 1
  /\ Len(set_calls) <= 1
  /\ \A i \in 1..Len(EventsOf("run_started")) :
       /\ WithRunId(consumed) # <<>>
       /\ EventsOf("run_started")[i].run_id = WithRunId(consumed)[1].run_id
  /\ \A i \in 1..Len(set_calls) :
       /\ WithRunId(consumed) # <<>>
       /\ set_calls[i] = WithRunId(consumed)[1].run_id
  /\ stpc \in {"iter", "returned"} =>
       /\ Len(EventsOf("run_started")) =
            (IF WithRunId(consumed) = <<>> THEN 0 ELSE 1)
       /\ Len(set_calls) = Len(EventsOf("run_started"))

\* C29 happens: two chunks carried different run ids, the stream ended, and
\* the one run_started event carries the first of them.
C29_Witness ==
  /\ stpc = "returned"
  /\ Len(WithRunId(consumed)) = 2
  /\ consumed[1].run_id # consumed[2].run_id
  /\ Len(EventsOf("run_started")) = 1
  /\ set_calls = <<consumed[1].run_id>>
  /\ execution_id \in DOMAIN active_agents
  /\ active_agents[execution_id].run_id = consumed[1].run_id

MessageKeys == {"role", "content", "timestamp"}

ValuesOf(key) ==
  CASE key = "role" -> {"user", "assistant"}
    [] key = "content" -> {"hello"}
    [] key = "timestamp" -> {"t0"}

MessageDicts ==
  UNION {{m \in [D -> {"user", "assistant", "hello", "t0"}] :
            \A k \in D : m[k] \in ValuesOf(k)} : D \in SUBSET MessageKeys}

\* The message sequences of at most n messages.
MessageSeqs(n) == UNION {[1..k -> MessageDicts] : k \in 0..n}

\* dict.get(key, default)
Get(msg, key, default) == IF key \in DOMAIN msg THEN msg[key] ELSE default

\* A projection that keeps the message as it is.
ProjectMessage_KeepAll(msg) == msg

\* Lines 132-135, the dict appended for msg:
ProjectMessage(msg) ==
  [k \in {"role", "content"} |->
     IF k = "role" THEN Get(msg, "role", "user")
                   ELSE Get(msg, "content", "")]

\* The call, and line 130: context = [].
CtxCall ==
  /\ ctx_pc \in {"idle", "returned"}
  /\ \E ms \in MessageSeqs(MaxMessages) :
       /\ session_messages' = ms
       /\ messages_at_call' = ms
  /\ context' = <<>>
  /\ ctx_pc' = "loop"
  /\ UNCHANGED ctx_returned
  /\ UNCHANGED <<avars, svars, rvars, tvars, hvars, pvars>>

\* Lines 131-135, one iteration of "for msg in session_messages":
CtxAppend ==
  /\ ctx_pc = "loop"
  /\ Len(context) < Len(session_messages)
  /\ context' = Append(context,
                       ProjectMessage(session_messages[Len(context) + 1]))
  /\ UNCHANGED <<ctx_pc, session_messages, messages_at_call, ctx_returned>>
  /\ UNCHANGED <<avars, svars, rvars, tvars, hvars, pvars>>

\* Line 136, after the last message: return context.
CtxReturn ==
  /\ ctx_pc = "loop"
  /\ Len(context) = Len(session_messages)
  /\ ctx_returned' = context
  /\ ctx_pc' = "returned"
  /\ UNCHANGED <<session_messages, messages_at_call, context>>
  /\ UNCHANGED <<avars, svars, rvars, tvars, hvars, pvars>>

NextContext == CtxCall \/ CtxAppend \/ CtxReturn

SpecContext == Init /\ [][NextContext]_vars

\* C34: what build_conversation_context returns has the length of its
\* argument; its i-th element has the keys role and content only, with the
\* role and the content of the i-th message of the argument ("user" and ""
\* where the message has none); and the argument is as it was at the call.
C34_BuildContextIsProjection ==
  ctx_pc = "returned" =>
    /\ Len(ctx_returned) = Len(messages_at_call)
    /\ \A i \in 1..Len(ctx_returned) :
         /\ DOMAIN ctx_returned[i] = {"role", "content"}
         /\ ctx_returned[i]["role"] =
              IF "role" \in DOMAIN messages_at_call[i]
                THEN messages_at_call[i]["role"] ELSE "user"
         /\ ctx_returned[i]["content"] =
              IF "content" \in DOMAIN messages_at_call[i]
                THEN messages_at_call[i]["content"] ELSE ""
    /\ session_messages = messages_at_call

\* C34 happens: a sequence of two messages was projected, the first with a
\* timestamp and no role, the second with a role and no content.
C34_Witness ==
  /\ ctx_pc = "returned"
  /\ Len(messages_at_call) = 2
  /\ DOMAIN messages_at_call[1] = {"content", "timestamp"}
  /\ DOMAIN messages_at_call[2] = {"role"}
  /\ messages_at_call[2]["role"] = "assistant"
  /\ Len(ctx_returned) = 2

(***************************************************************************)
(* tool_hook (team_activities.py lines 554-644; agent_activities.py lines  *)
(* 393-483 and agent_executor.py lines 131-180 are the same hook over      *)
(* another publisher).  The engine calls the hook once for each tool       *)
(* invocation, and may have several invocations under way at a time.       *)
(* hook_trace holds, in the order they happen, the events given to         *)
(* publish_streaming_event and the calls, returns and raises; each entry   *)
(* is marked with the invocation it belongs to.                            *)
(***************************************************************************)
\* The values of the parameters name and function_name.
None == "None"
NameArgs == {None, "search"}

\* How the call of line 603 or the test of line 602 ends: the function
\* returns, it raises an error that is an Exception, it raises one that is
\* a BaseException only (SystemExit, KeyboardInterrupt), or there is
\* nothing to call.
FunctionOutcomes == {"returns", "raises_exception", "raises_base_exception",
                     "not_callable"}

\* Line 565: tool_name = name or function_name or "unknown"
ToolName(name, function_name) ==
  IF name # None THEN name
  ELSE IF function_name # None THEN function_name ELSE "unknown"

\* Line 570: f"{tool_name}_{int(time.time() * 1000000)}"
ToolExecutionId(tool_name, t) == tool_name \o "_" \o ToString(t)

\* An entry of hook_trace.
TraceEntry(kind, i, id, status, error) ==
  [kind |-> kind, inv |-> i, tool_execution_id |-> id, status |-> status,
   error |-> error]

\* Time passes.
HookClockTick ==
  /\ hook_clock < MaxClock
  /\ hook_clock' = hook_clock + 1
  /\ UNCHANGED <<hook_pc, hook_tool, hook_id, hook_status, hook_error,
                 hook_trace>>
  /\ UNCHANGED <<avars, svars, rvars, tvars, cvars, pvars>>

\* Lines 554-596: the name, the id, the tool_started event.
HookStart(i) ==
  /\ hook_pc[i] = "idle"
  /\ \E name \in NameArgs, function_name \in NameArgs :
       LET tool_name == ToolName(name, function_name)
           tool_execution_id == ToolExecutionId(tool_name, hook_clock)
       IN /\ hook_tool' = [hook_tool EXCEPT ![i] = tool_name]
          /\ hook_id' = [hook_id EXCEPT ![i] = tool_execution_id]
          /\ hook_trace' =
               Append(hook_trace,
                      TraceEntry("tool_started", i, tool_execution_id, "",
                                 NoError))
  /\ hook_pc' = [hook_pc EXCEPT ![i] = "try"]
  /\ UNCHANGED <<hook_clock, hook_status, hook_error>>
  /\ UNCHANGED <<avars, svars, rvars, tvars, cvars, pvars>>

\* Lines 598-615: the try statement around the call of the function.
HookCall(i) ==
  /\ hook_pc[i] = "try"
  /\ \E out \in FunctionOutcomes :
       CASE out = "returns" ->
              /\ hook_trace' =
                   Append(hook_trace,
                          TraceEntry("call", i, hook_id[i], "", NoError))
              /\ hook_status' = [hook_status EXCEPT ![i] = "success"]
              /\ hook_error' = [hook_error EXCEPT ![i] = NoError]
              /\ hook_pc' = [hook_pc EXCEPT ![i] = "publish_completed"]
         [] out = "raises_exception" ->
              /\ hook_trace' =
                   Append(hook_trace,
                          TraceEntry("call", i, hook_id[i], "", "ToolError"))
              /\ hook_status' = [hook_status EXCEPT ![i] = "failed"]
              /\ hook_error' = [hook_error EXCEPT ![i] = "ToolError"]
              /\ hook_pc' = [hook_pc EXCEPT ![i] = "publish_completed"]
         [] out = "not_callable" ->
              \* line 605: ValueError, caught at line 611; nothing called
              /\ hook_trace' = hook_trace
              /\ hook_status' = [hook_status EXCEPT ![i] = "failed"]
              /\ hook_error' = [hook_error EXCEPT ![i] = "ValueError"]
              /\ hook_pc' = [hook_pc EXCEPT ![i] = "publish_completed"]
         [] out = "raises_base_exception" ->
              \* "except Exception" of line 611 does not catch it: it
              \* leaves the hook from line 603
              /\ hook_trace' =
                   hook_trace \o
                     <<TraceEntry("call", i, hook_id[i], "", "SystemExit"),
                       TraceEntry("raise", i, hook_id[i], "", "SystemExit")>>
              /\ hook_status' = hook_status
              /\ hook_error' = hook_error
              /\ hook_pc' = [hook_pc EXCEPT ![i] = "raised"]
  /\ UNCHANGED <<hook_clock, hook_tool, hook_id>>
  /\ UNCHANGED <<avars, svars, rvars, tvars, cvars, pvars>>

\* Lines 617-637: the tool_completed event.
HookPublishCompleted(i) ==
  /\ hook_pc[i] = "publish_completed"
  /\ hook_trace' =
       Append(hook_trace,
              TraceEntry("tool_completed", i, hook_id[i], hook_status[i],
                         hook_error[i]))
  /\ hook_pc' = [hook_pc EXCEPT ![i] = "exit"]
  /\ UNCHANGED <<hook_clock, hook_tool, hook_id, hook_status, hook_error>>
  /\ UNCHANGED <<avars, svars, rvars, tvars, cvars, pvars>>

\* Lines 639-644: raise error, or return result.
HookExit(i) ==
  /\ hook_pc[i] = "exit"
  /\ IF hook_error[i] # NoError
       THEN /\ hook_trace' =
                 Append(hook_trace,
                        TraceEntry("raise", i, hook_id[i], "",
                                   hook_error[i]))
            /\ hook_pc' = [hook_pc EXCEPT ![i] = "raised"]
       ELSE /\ hook_trace' =
                 Append(hook_trace,
                        TraceEntry("return", i, hook_id[i], "", NoError))
            /\ hook_pc' = [hook_pc EXCEPT ![i] = "returned"]
  /\ UNCHANGED <<hook_clock, hook_tool, hook_id, hook_status, hook_error>>
  /\ UNCHANGED <<avars, svars, rvars, tvars, cvars, pvars>>

NextHook ==
  \/ HookClockTick
  \/ \E i \in Invocations :
       HookStart(i) \/ HookCall(i) \/ HookPublishCompleted(i) \/ HookExit(i)

SpecHook == Init /\ [][NextHook]_vars

\* The places of hook_trace that hold an entry of this kind of invocation i.
Places(i, kind) ==
  {k \in 1..Len(hook_trace) :
     hook_trace[k].inv = i /\ hook_trace[k].kind = kind}

\* C32: for each invocation, the call of the function comes after a
\* tool_started event of the invocation; there is never more than one
\* tool_completed event of it; and when the hook has returned or raised,
\* one tool_completed event with the id of the tool_started event came
\* after the call and before the exit, with status "failed" and the
\* function's own error raised when the function raised.
C32_StartedThenOneCompleted ==
  \A i \in Invocations :
    /\ \A c \in Places(i, "call") :
         \E s \in Places(i, "tool_started") : s < c
    /\ Cardinality(Places(i, "tool_completed")) <= 1
    /\ \A x \in Places(i, "return") \cup Places(i, "raise") :
         \E d \in Places(i, "tool_completed") :
           /\ d < x
           /\ \A c \in Places(i, "call") : c < d
           /\ \A s \in Places(i, "tool_started") :
                hook_trace[s].tool_execution_id =
                  hook_trace[d].tool_execution_id
           /\ hook_trace[x].kind = "raise" =>
                /\ hook_trace[d].status = "failed"
                /\ hook_trace[x].error = hook_trace[d].error

\* C33: two invocations that have started have different tool execution
\* ids, and every tool_completed event has the id of exactly one
\* tool_started event.
C33_ToolExecutionIdsUnique ==
  /\ \A i, j \in Invocations :
       i # j /\ hook_pc[i] # "idle" /\ hook_pc[j] # "idle" =>
         hook_id[i] # hook_id[j]
  /\ \A d \in 1..Len(hook_trace) :
       hook_trace[d].kind = "tool_completed" =>
         Cardinality({s \in 1..Len(hook_trace) :
                        /\ hook_trace[s].kind = "tool_started"
                        /\ hook_trace[s].tool_execution_id =
                             hook_trace[d].tool_execution_id}) = 1

(***************************************************************************)
(* stream_team_run and publish_streaming_event (team_activities.py lines   *)
(* 71-114 and 684-815).  Two runs take the same input, that is the same    *)
(* chunks from team.run with the same ending: the run "actual", whose      *)
(* publishes end as the sink and the network make them end, and the run    *)
(* "reference", every publish of which is accepted.                        *)
(***************************************************************************)
\* chunk.content of a chunk: "" for a chunk without content.
ChunkContents == {"", "a", "b"}

\* How a call of publish_streaming_event goes: the sink answers 200 or 202,
\* it answers another status, the connection fails, the post times out
\* (httpx.Timeout(1.0, connect=0.5)), or KUBIYA_API_KEY is not set.
PublishOutcomes == {"accepted", "rejected", "network_error", "timeout",
                    "no_api_key"}

\* The inputs of a run: the chunks the iterator yields, whether it then ends
\* or raises, and what the engine does when it is run again without
\* streaming.
TeamInputs ==
  [chunks : UNION {[1..k -> ChunkContents] : k \in 0..MaxTeamChunks},
   ending : {"end", "raise"},
   fallback : {"returns", "raises"}]

\* A publish that lets the errors of the post through.
PublishStreamingEvent_Raises(outcome) ==
  [raised |-> outcome \in {"network_error", "timeout"},
   delivered |-> outcome = "accepted"]

\* Lines 71-114: nothing is posted without an API key (lines 83-85); the
\* post and the test of its status are inside try/except Exception (lines
\* 87-114), which logs; the function returns None every time.
PublishStreamingEvent(outcome) ==
  [raised |-> FALSE, delivered |-> outcome = "accepted"]

\* Line 761: full_response if full_response else
\*           (result.content if hasattr(result, "content") else str(result))
ResponseContent(full, result_content) ==
  IF full # "" THEN full ELSE result_content

\* str(run_response) of the iterator the streamed run returned, and the
\* content of the result of the run without streaming.
IteratorStr == "<generator>"
FallbackContent == "F"

\* Lines 808-815 and 830-836, the dicts returned.
TeamSuccess(response) ==
  [returned |-> TRUE, success |-> TRUE, response |-> response, error |-> ""]
TeamFailure(error) ==
  [returned |-> TRUE, success |-> FALSE, response |-> "", error |-> error]

\* Lines 684-705: both runs are given the same input.
TeamStart ==
  /\ \A r \in Runs : team_pc[r] = "idle"
  /\ \E input \in TeamInputs : team_input' = input
  /\ team_pc' = [r \in Runs |-> "loop"]
  /\ UNCHANGED <<team_visited, team_full_response, team_response_chunks,
                 team_published, team_result>>
  /\ UNCHANGED <<avars, svars, rvars, tvars, hvars, cvars>>

\* Lines 708-726, one iteration of "for chunk in run_response":
TeamChunk(r) ==
  /\ team_pc[r] = "loop"
  /\ Len(team_visited[r]) < Len(team_input.chunks)
  /\ LET content == team_input.chunks[Len(team_visited[r]) + 1]
     IN /\ team_visited' =
             [team_visited EXCEPT ![r] = Append(@, content)]
        /\ IF content # ""
             THEN \E outcome \in (IF r = "reference" THEN {"accepted"}
                                                    ELSE PublishOutcomes) :
                    LET p == PublishStreamingEvent(outcome)
                    IN /\ team_full_response' =
                            [team_full_response EXCEPT ![r] = @ \o content]
                       /\ team_response_chunks' =
                            [team_response_chunks EXCEPT
                               ![r] = Append(@, content)]
                       /\ team_published' =
                            [team_published EXCEPT
                               ![r] = Append(@, [content |-> content,
                                                 outcome |-> outcome,
                                                 delivered |-> p.delivered])]
                       /\ team_pc' =
                            [team_pc EXCEPT
                               ![r] = IF p.raised THEN "fallback" ELSE @]
             ELSE UNCHANGED <<team_full_response, team_response_chunks,
                              team_published, team_pc>>
  /\ UNCHANGED <<team_input, team_result>>
  /\ UNCHANGED <<avars, svars, rvars, tvars, hvars, cvars>>

\* The iterator ends: lines 728-731 return run_response, line 745 gets it,
\* lines 761-815 build the dict.
TeamEnd(r) ==
  /\ team_pc[r] = "loop"
  /\ Len(team_visited[r]) = Len(team_input.chunks)
  /\ team_input.ending = "end"
  /\ team_result' =
       [team_result EXCEPT
          ![r] = TeamSuccess(ResponseContent(team_full_response[r],
                                             IteratorStr))]
  /\ team_pc' = [team_pc EXCEPT ![r] = "done"]
  /\ UNCHANGED <<team_input, team_visited, team_full_response,
                 team_response_chunks, team_published>>
  /\ UNCHANGED <<avars, svars, rvars, tvars, hvars, cvars>>

\* The iterator raises: line 732 catches.
TeamIterError(r) ==
  /\ team_pc[r] = "loop"
  /\ Len(team_visited[r]) = Len(team_input.chunks)
  /\ team_input.ending = "raise"
  /\ team_pc' = [team_pc EXCEPT ![r] = "fallback"]
  /\ UNCHANGED <<team_input, team_visited, team_full_response,
                 team_response_chunks, team_published, team_result>>
  /\ UNCHANGED <<avars, svars, rvars, tvars, hvars, cvars>>

\* Lines 733-742: team.run(input.prompt, stream=False); its result reaches
\* lines 761-815, its error lines 817-836.
TeamFallback(r) ==
  /\ team_pc[r] = "fallback"
  /\ team_result' =
       [team_result EXCEPT
          ![r] = IF team_input.fallback = "returns"
                   THEN TeamSuccess(ResponseContent(team_full_response[r],
                                                    FallbackContent))
                   ELSE TeamFailure("EngineError")]
  /\ team_pc' = [team_pc EXCEPT ![r] = "done"]
  /\ UNCHANGED <<team_input, team_visited, team_full_response,
                 team_response_chunks, team_published>>
  /\ UNCHANGED <<avars, svars, rvars, tvars, hvars, cvars>>

NextTeam ==
  \/ TeamStart
  \/ \E r \in Runs :
       TeamChunk(r) \/ TeamEnd(r) \/ TeamIterError(r) \/ TeamFallback(r)

SpecTeam == Init /\ [][NextTeam]_vars

\* C31: whatever the publishes of the run "actual" came to, when both runs
\* have taken as many chunks their responses so far are the same, and when
\* both are over they have visited the same chunks, accumulated the same
\* response and returned the same dict.
C31_SinkFailuresDoNotInfluence ==
  /\ Len(team_visited["actual"]) = Len(team_visited["reference"]) =>
       /\ team_visited["actual"] = team_visited["reference"]
       /\ team_full_response["actual"] = team_full_response["reference"]
       /\ team_response_chunks["actual"] = team_response_chunks["reference"]
  /\ (\A r \in Runs : team_pc[r] = "done") =>
       /\ team_visited["actual"] = team_input.chunks
       /\ team_visited["reference"] = team_input.chunks
       /\ team_full_response["actual"] = team_full_response["reference"]
       /\ team_result["actual"] = team_result["reference"]

\* C31 happens: both runs are over with two chunks of content; one publish
\* of the run "actual" timed out and the other met a network error.
C31_Witness ==
  /\ \A r \in Runs : team_pc[r] = "done"
  /\ team_input.chunks = <<"a", "b">>
  /\ Len(team_published["actual"]) = 2
  /\ team_published["actual"][1].outcome = "timeout"
  /\ team_published["actual"][2].outcome = "network_error"
  /\ team_result["actual"] = TeamSuccess("ab")

====
